---- MODULE Spec2Model ----
(***************************************************************************)
(* Grepper: the traversal + matching + cancellable-streaming engine of     *)
(* src/grepper.py.  One search tab (a TabState), the worker threads that   *)
(* start_search_for_tab spawns on it, the Tk main thread (button handlers  *)
(* and the _pump_queues timer callback) and the ripgrep child process.     *)
(*                                                                         *)
(* Text is a sequence of one-character strings: <<"a", ".", "t">> is the   *)
(* Python string "a.t".                                                    *)
(***************************************************************************)
EXTENDS Integers, Sequences, FiniteSets, TLC

(***************************************************************************)
(* Bounds of the model (not program constants).                            *)
(***************************************************************************)
\* threads a tab can have started, and searches started under SpecRestart
MaxRuns == 2
\* searches started under Spec and SpecLive
OneRun == 1
\* clicks on Pause / Resume, Clear Results and (during a run) the mode radio
\* buttons, under Spec, SpecRestart and SpecLive
MaxRequests == 2
MaxRestartRequests == 1
MaxLiveRequests == 2
\* clicks on Pause / Resume under SpecScan
MaxScanRequests == 1
\* lines of the .gitignore files SpecScan draws
MaxIgnoreLines == 2

(***************************************************************************)
(* Program constants.                                                      *)
(***************************************************************************)
max_results_per_tick == 800
max_logs_per_tick == 300
BYTES_PER_MB == 1048576
DELAY_BACKLOG == 1
DELAY_IDLE == 120

None == "None"

\* an optional number or path: Missing for None, Some(x) for the value x
Missing == <<>>
Some(x) == <<x>>

(***************************************************************************)
(* Python string helpers.                                                  *)
(***************************************************************************)
Min(a, b) == IF a < b THEN a ELSE b

StartsWith(s, p) == Len(s) >= Len(p) /\ SubSeq(s, 1, Len(p)) = p

EndsWith(s, p) == Len(s) >= Len(p) /\ SubSeq(s, Len(s) - Len(p) + 1, Len(s)) = p

\* needle in hay
Contains(hay, needle) ==
    \E i \in 1..(Len(hay) - Len(needle) + 1) : SubSeq(hay, i, i + Len(needle) - 1) = needle

\* s.count(c)
Count(s, c) == Cardinality({i \in 1..Len(s) : s[i] = c})

\* str.lower() on one character
LowerChar(c) ==
    CASE c = "H" -> "h"
      [] c = "I" -> "i"
      [] c = "A" -> "a"
      [] c = "C" -> "c"
      [] c = "T" -> "t"
      [] OTHER -> c

Lower(s) == [i \in 1..Len(s) |-> LowerChar(s[i])]

\* \w of the re module, on the characters the model uses
IsWordChar(c) ==
    c \in {"a", "b", "c", "d", "e", "g", "h", "i", "k", "l", "n", "o", "r", "s", "t", "u", "x",
           "A", "C", "H", "I", "T", "0", "1", "2", "3", "4", "5", "6", "7", "8", "9", "_"}

\* os.path.join(root, name)
PathJoin(root, name) == root \o <<"/">> \o name

\* os.path.relpath(path, base).replace(os.sep, "/") for a path below base
RelPath(path, base) == SubSeq(path, Len(base) + 2, Len(path))

\* rel_posix_path.rsplit("/", 1)[-1], and os.path.basename
BaseName(p) ==
    LET slashes == {i \in 1..Len(p) : p[i] = "/"}
    IN  IF slashes = {} THEN p
        ELSE LET last == CHOOSE i \in slashes : \A j \in slashes : j <= i
             IN  SubSeq(p, last + 1, Len(p))

Range(seq) == {seq[i] : i \in 1..Len(seq)}

(***************************************************************************)
(* fnmatch.fnmatchcase(name, pat): '*' matches any run of characters       *)
(* (including '/'), '?' any one character, anything else itself.           *)
(***************************************************************************)
RECURSIVE fnmatchcase(_, _)
fnmatchcase(name, pat) ==
    IF pat = <<>> THEN name = <<>>
    ELSE IF Head(pat) = "*"
         THEN \E k \in 0..Len(name) : fnmatchcase(SubSeq(name, k + 1, Len(name)), Tail(pat))
         ELSE IF name = <<>> THEN FALSE
              ELSE /\ (Head(pat) = "?" \/ Head(pat) = Head(name))
                   /\ fnmatchcase(Tail(name), Tail(pat))

\* any(fnmatch.fnmatch(name, g) for g in globs), on a case-sensitive platform
AnyGlob(name, globs) == \E i \in 1..Len(globs) : fnmatchcase(name, globs[i])

(***************************************************************************)
(* The pattern matcher shared by the workers (is_match, match_name,        *)
(* match_folder, match_content).  A pattern spec is                        *)
(* [text, regex, case, whole].                                             *)
(***************************************************************************)
\* re.compile raises re.error: the model's only regex metacharacters are
\* the parentheses, and an unbalanced one does not compile.
ReError(text) == Count(text, "(") # Count(text, ")")

\* \b between hay[k] and hay[k + 1] (k = 0 is the start, k = Len(hay) the end)
WordBoundary(hay, k) ==
    LET before == k >= 1 /\ IsWordChar(hay[k])
        after == k < Len(hay) /\ IsWordChar(hay[k + 1])
    IN  before # after

\* re.search(rf"\b{re.escape(needle)}\b", hay) is not None
WordSearch(needle, hay) ==
    \E i \in 1..(Len(hay) - Len(needle) + 1) :
        /\ SubSeq(hay, i, i + Len(needle) - 1) = needle
        /\ WordBoundary(hay, i - 1)
        /\ WordBoundary(hay, i + Len(needle) - 1)

\* a faulty predicate that forgets the whole-word option
MatchesSubstring(p, text) ==
    LET needle == IF p.case THEN p.text ELSE Lower(p.text)
        hay == IF p.case THEN text ELSE Lower(text)
    IN  Contains(hay, needle)

\* The predicate built from a pattern spec that compiled: is_match,
\* match_name, match_folder, match_content.  A regex of the model that
\* compiles is made of literal characters, so pat.search under re.IGNORECASE
\* finds what the case-folded literal search finds.
Matches(p, text) ==
    LET needle == IF p.case THEN p.text ELSE Lower(p.text)
        hay == IF p.case THEN text ELSE Lower(text)
    IN  IF p.whole THEN WordSearch(needle, hay) ELSE Contains(hay, needle)

(***************************************************************************)
(* gitignore_ignored(rel_posix_path, is_dir, rules); a rule is             *)
(* <<pat, negated, dir_only>>.                                             *)
(***************************************************************************)
RECURSIVE IgnoredFrom(_, _, _, _)
IgnoredFrom(rel, is_dir, rules, ignored) ==
    IF rules = <<>> THEN ignored
    ELSE LET r == Head(rules)
             pat == r[1]
             negated == r[2]
             dir_only == r[3]
             target == IF Count(pat, "/") > 0 THEN rel ELSE BaseName(rel)
         IN  IF dir_only /\ ~is_dir
             THEN IgnoredFrom(rel, is_dir, Tail(rules), ignored)
             ELSE IF fnmatchcase(target, pat)
                  THEN IgnoredFrom(rel, is_dir, Tail(rules), ~negated)
                  ELSE IgnoredFrom(rel, is_dir, Tail(rules), ignored)

\* a faulty evaluation that stops at the first rule that matches
RECURSIVE gitignore_first_match(_, _, _)
gitignore_first_match(rel, is_dir, rules) ==
    IF rules = <<>> THEN FALSE
    ELSE LET r == Head(rules)
             target == IF Count(r[1], "/") > 0 THEN rel ELSE BaseName(rel)
         IN  IF ~(r[3] /\ ~is_dir) /\ fnmatchcase(target, r[1]) THEN ~r[2]
             ELSE gitignore_first_match(rel, is_dir, Tail(rules))

gitignore_ignored(rel, is_dir, rules) == IgnoredFrom(rel, is_dir, rules, FALSE)

\* is_hidden_path(path) on a non-Windows platform
is_hidden_path(path) == StartsWith(BaseName(path), <<".">>)

(***************************************************************************)
(* The directory tree searched.  TREE_FULL is the end-to-end scenario of   *)
(* the specification: /r holds a.t ("hi", "ohi"), the binary b.b and the   *)
(* directory s; /r/s holds c.t ("hi").  TREE_SMALL is /r with a.t ("hi").  *)
(***************************************************************************)
BASE == <<"/", "r">>
N_A == <<"a", ".", "t">>
N_B == <<"b", ".", "b">>
N_C == <<"c", ".", "t">>
N_S == <<"s">>
L_HI == <<"h", "i", "\n">>
L_OHI == <<"o", "h", "i", "\n">>

\* a tree: dirs maps a directory to its os.scandir listing; files maps a
\* file to its size in bytes, its modification time in seconds, whether its
\* first 2048 bytes hold a NUL, and its lines; mtimes maps a directory to
\* its modification time; denied holds the files open() raises on;
\* gitignore holds the lines of BASE/.gitignore (none if there is no file)
TREE_FULL ==
    [dirs |-> (BASE :> [dirs |-> <<N_S>>, files |-> <<N_A, N_B>>]) @@
              (PathJoin(BASE, N_S) :> [dirs |-> <<>>, files |-> <<N_C>>]),
     files |-> (PathJoin(BASE, N_A) :>
                    [size |-> 7, mtime |-> 60, binary |-> FALSE,
                     lines |-> <<L_HI, L_OHI>>]) @@
               (PathJoin(BASE, N_B) :>
                    [size |-> 2, mtime |-> 60, binary |-> TRUE, lines |-> <<>>]) @@
               (PathJoin(PathJoin(BASE, N_S), N_C) :>
                    [size |-> 3, mtime |-> 120, binary |-> FALSE, lines |-> <<L_HI>>]),
     mtimes |-> (BASE :> 120) @@ (PathJoin(BASE, N_S) :> 120),
     denied |-> {}, gitignore |-> <<>>]

TREE_SMALL ==
    [dirs |-> (BASE :> [dirs |-> <<>>, files |-> <<N_A>>]),
     files |-> (PathJoin(BASE, N_A) :>
                    [size |-> 3, mtime |-> 60, binary |-> FALSE, lines |-> <<L_HI>>]),
     mtimes |-> (BASE :> 60),
     denied |-> {}, gitignore |-> <<>>]

N_E == <<"e", ".", "t">>
N_U == <<"u">>
N_H == <<".", "h">>
N_X == <<"x">>
N_G == <<"g">>
N_K == <<"k">>
N_AL == <<"a", ".", "l">>
N_KL == <<"k", ".", "l">>
N_SB == <<"s", "b">>
N_SG == <<"s", "g">>
N_SC == <<"s", "c">>
N_SN == <<"s", "n">>
L_NO == <<"n", "o", "\n">>

\* the name of the ignore file
N_GITIGNORE == <<".", "g", "i", "t", "i", "g", "n", "o", "r", "e">>

\* a readable text file of the given lines
TextFile(lines) == [size |-> 3, mtime |-> 60, binary |-> FALSE, lines |-> lines]

\* three levels: /r holds a.t and s, /r/s holds c.t and u, /r/s/u holds e.t
TREE_DEEP ==
    [dirs |-> (BASE :> [dirs |-> <<N_S>>, files |-> <<N_A>>]) @@
              (PathJoin(BASE, N_S) :> [dirs |-> <<N_U>>, files |-> <<N_C>>]) @@
              (PathJoin(PathJoin(BASE, N_S), N_U) :> [dirs |-> <<>>, files |-> <<N_E>>]),
     files |-> (PathJoin(BASE, N_A) :> TextFile(<<L_HI>>)) @@
               (PathJoin(PathJoin(BASE, N_S), N_C) :> TextFile(<<L_HI>>)) @@
               (PathJoin(PathJoin(PathJoin(BASE, N_S), N_U), N_E) :> TextFile(<<L_HI>>)),
     mtimes |-> (BASE :> 60) @@ (PathJoin(BASE, N_S) :> 60) @@
                (PathJoin(PathJoin(BASE, N_S), N_U) :> 60),
     denied |-> {}, gitignore |-> <<>>]

\* /r holds a.t, the hidden directory .h, and the directories x and g; g
\* holds c.t and the directory k; .h, x and k hold one file each; the
\* .gitignore of /r is the line "g"
TREE_PRUNE ==
    [dirs |-> (BASE :> [dirs |-> <<N_H, N_X, N_G>>, files |-> <<N_A>>]) @@
              (PathJoin(BASE, N_H) :> [dirs |-> <<>>, files |-> <<N_C>>]) @@
              (PathJoin(BASE, N_X) :> [dirs |-> <<>>, files |-> <<N_C>>]) @@
              (PathJoin(BASE, N_G) :> [dirs |-> <<N_K>>, files |-> <<N_C>>]) @@
              (PathJoin(PathJoin(BASE, N_G), N_K) :> [dirs |-> <<>>, files |-> <<N_E>>]),
     files |-> (PathJoin(BASE, N_A) :> TextFile(<<L_HI>>)) @@
               (PathJoin(PathJoin(BASE, N_H), N_C) :> TextFile(<<L_HI>>)) @@
               (PathJoin(PathJoin(BASE, N_X), N_C) :> TextFile(<<L_HI>>)) @@
               (PathJoin(PathJoin(BASE, N_G), N_C) :> TextFile(<<L_HI>>)) @@
               (PathJoin(PathJoin(PathJoin(BASE, N_G), N_K), N_E) :> TextFile(<<L_HI>>)),
     mtimes |-> (BASE :> 60) @@ (PathJoin(BASE, N_H) :> 60) @@ (PathJoin(BASE, N_X) :> 60) @@
                (PathJoin(BASE, N_G) :> 60) @@ (PathJoin(PathJoin(BASE, N_G), N_K) :> 60),
     denied |-> {}, gitignore |-> << N_G >>]

\* /r holds a.l, k.l and the directory g, which holds k.l; the .gitignore
\* of /r is drawn by the specification
TREE_IGNORE ==
    [dirs |-> (BASE :> [dirs |-> <<N_G>>, files |-> <<N_AL, N_KL>>]) @@
              (PathJoin(BASE, N_G) :> [dirs |-> <<>>, files |-> <<N_KL>>]),
     files |-> (PathJoin(BASE, N_AL) :> TextFile(<<L_HI>>)) @@
               (PathJoin(BASE, N_KL) :> TextFile(<<L_HI>>)) @@
               (PathJoin(PathJoin(BASE, N_G), N_KL) :> TextFile(<<L_HI>>)),
     mtimes |-> (BASE :> 60) @@ (PathJoin(BASE, N_G) :> 60),
     denied |-> {}, gitignore |-> <<>>]

\* /r holds four directories with one file each: sb a binary file, sg a
\* text file of 2 MB with the line "hi", sc a text file with the line "hi",
\* sn a text file with the line "no"
TREE_FOLDERS ==
    [dirs |-> (BASE :> [dirs |-> <<N_SB, N_SG, N_SC, N_SN>>, files |-> <<>>]) @@
              (PathJoin(BASE, N_SB) :> [dirs |-> <<>>, files |-> <<N_B>>]) @@
              (PathJoin(BASE, N_SG) :> [dirs |-> <<>>, files |-> <<N_A>>]) @@
              (PathJoin(BASE, N_SC) :> [dirs |-> <<>>, files |-> <<N_C>>]) @@
              (PathJoin(BASE, N_SN) :> [dirs |-> <<>>, files |-> <<N_E>>]),
     files |-> (PathJoin(PathJoin(BASE, N_SB), N_B) :>
                    [size |-> 2, mtime |-> 60, binary |-> TRUE, lines |-> <<>>]) @@
               (PathJoin(PathJoin(BASE, N_SG), N_A) :>
                    [size |-> 2 * BYTES_PER_MB, mtime |-> 60, binary |-> FALSE,
                     lines |-> <<L_HI>>]) @@
               (PathJoin(PathJoin(BASE, N_SC), N_C) :> TextFile(<<L_HI>>)) @@
               (PathJoin(PathJoin(BASE, N_SN), N_E) :> TextFile(<<L_NO>>)),
     mtimes |-> (BASE :> 60) @@ (PathJoin(BASE, N_SB) :> 60) @@ (PathJoin(BASE, N_SG) :> 60) @@
                (PathJoin(BASE, N_SC) :> 60) @@ (PathJoin(BASE, N_SN) :> 60),
     denied |-> {}, gitignore |-> <<>>]

\* /r holds a.t, which open() raises on, and c.t
TREE_DENIED ==
    [dirs |-> (BASE :> [dirs |-> <<>>, files |-> <<N_A, N_C>>]),
     files |-> (PathJoin(BASE, N_A) :> TextFile(<<L_HI>>)) @@
               (PathJoin(BASE, N_C) :> TextFile(<<L_HI>>)),
     mtimes |-> (BASE :> 60),
     denied |-> {PathJoin(BASE, N_A)}, gitignore |-> <<>>]

\* /r holds the text file a.t, the binary b.b, the text file g.t of 2 MB,
\* the hidden text file .h and the text file k.l, which the .gitignore of
\* /r ignores
N_GT == <<"g", ".", "t">>
TREE_COUNT ==
    [dirs |-> (BASE :> [dirs |-> <<>>, files |-> <<N_A, N_B, N_GT, N_H, N_KL>>]),
     files |-> (PathJoin(BASE, N_A) :> TextFile(<<L_HI>>)) @@
               (PathJoin(BASE, N_B) :>
                    [size |-> 2, mtime |-> 60, binary |-> TRUE, lines |-> <<>>]) @@
               (PathJoin(BASE, N_GT) :>
                    [size |-> 2 * BYTES_PER_MB, mtime |-> 60, binary |-> FALSE,
                     lines |-> <<L_HI>>]) @@
               (PathJoin(BASE, N_H) :> TextFile(<<L_HI>>)) @@
               (PathJoin(BASE, N_KL) :> TextFile(<<L_HI>>)),
     mtimes |-> (BASE :> 60),
     denied |-> {}, gitignore |-> << <<"*", ".", "l">> >>]

\* /r holds cat.t with five lines and the empty concat.t
N_CAT == <<"c", "a", "t", ".", "t">>
N_CONCAT == <<"c", "o", "n", "c", "a", "t", ".", "t">>
L_THE_CAT_SAT == <<"t", "h", "e", " ", "c", "a", "t", " ", "s", "a", "t", "\n">>
L_CONCATENATE == <<"c", "o", "n", "c", "a", "t", "e", "n", "a", "t", "e", "\n">>
L_UPPER_CAT == <<"T", "h", "e", " ", "C", "a", "t", "\n">>
L_CAT_DOT_X == <<"c", "a", "t", ".", "x", "\n">>
L_CAT_DOT == <<"c", "a", "t", ".", " ", "x", "\n">>
TREE_WORDS ==
    [dirs |-> (BASE :> [dirs |-> <<>>, files |-> <<N_CAT, N_CONCAT>>]),
     files |-> (PathJoin(BASE, N_CAT) :>
                    TextFile(<<L_THE_CAT_SAT, L_CONCATENATE, L_UPPER_CAT, L_CAT_DOT_X,
                               L_CAT_DOT>>)) @@
               (PathJoin(BASE, N_CONCAT) :> TextFile(<<>>)),
     mtimes |-> (BASE :> 60),
     denied |-> {}, gitignore |-> <<>>]

VARIABLE env        \* what the program runs in: the tree on disk (fs), how many
                    \* searches (runs) and other requests the user makes, and which
                    \* values the widgets hold (forms); never changes

FSDirs == env.fs.dirs
FSFiles == env.fs.files

\* str.strip(): without the leading and trailing whitespace
IsSpace(c) == c \in {" ", "\n", "\t"}

RECURSIVE LStrip(_)
LStrip(s) == IF s # <<>> /\ IsSpace(Head(s)) THEN LStrip(Tail(s)) ELSE s

RECURSIVE RStrip(_)
RStrip(s) ==
    IF s # <<>> /\ IsSpace(s[Len(s)]) THEN RStrip(SubSeq(s, 1, Len(s) - 1)) ELSE s

Strip(s) == LStrip(RStrip(s))

\* line.rstrip("/")
RECURSIVE RStripSlash(_)
RStripSlash(s) ==
    IF s # <<>> /\ s[Len(s)] = "/" THEN RStripSlash(SubSeq(s, 1, Len(s) - 1)) ELSE s

\* a faulty parser that does not skip a bare "!"
RECURSIVE ParseRulesKeepsBang(_)
ParseRulesKeepsBang(raws) ==
    IF raws = <<>> THEN <<>>
    ELSE LET line == Strip(Head(raws))
             negated == StartsWith(line, <<"!">>)
             line2 == IF negated THEN Strip(Tail(line)) ELSE line
             dir_only == EndsWith(line2, <<"/">>)
             pat == IF dir_only THEN RStripSlash(line2) \o <<"/", "*", "*">>
                    ELSE RStripSlash(line2)
         IN  IF line = <<>> \/ StartsWith(line, <<"#">>)
             THEN ParseRulesKeepsBang(Tail(raws))
             ELSE << <<pat, negated, dir_only>> >> \o ParseRulesKeepsBang(Tail(raws))

\* lines 135-148: the rules of the lines raws, in file order
RECURSIVE ParseRules(_)
ParseRules(raws) ==
    IF raws = <<>> THEN <<>>
    ELSE LET line == Strip(Head(raws))
             negated == StartsWith(line, <<"!">>)
             line2 == IF negated THEN Strip(Tail(line)) ELSE line
             dir_only == EndsWith(line2, <<"/">>)
             pat == IF dir_only THEN RStripSlash(line2) \o <<"/", "*", "*">>
                    ELSE RStripSlash(line2)
         IN  IF line = <<>> \/ StartsWith(line, <<"#">>) \/ line2 = <<>>
             THEN ParseRules(Tail(raws))
             ELSE << <<pat, negated, dir_only>> >> \o ParseRules(Tail(raws))

\* load_gitignore_rules(base_dir): the rules of base_dir/.gitignore, none if
\* the file cannot be read
load_gitignore_rules(base_dir) ==
    IF base_dir = BASE /\ PathJoin(BASE, N_GITIGNORE) \notin env.fs.denied
    THEN ParseRules(env.fs.gitignore)
    ELSE <<>>

\* os.path.getsize(path); the files of the model are all readable
getsize(path) == FSFiles[path].size

\* os.path.getmtime(path)
getmtime(path) == IF path \in DOMAIN FSFiles THEN FSFiles[path].mtime ELSE env.fs.mtimes[path]

\* fmt_size(num_bytes): below 1024 the bytes as they are; above, the value
\* in the first unit it is below 1024 of, to one decimal (kept as tenths,
\* rounded half to even as the float format does)
RECURSIVE FmtUnits(_, _, _)
FmtUnits(num_bytes, unit_bytes, units) ==
    LET q == (num_bytes * 10) \div unit_bytes
        r == (num_bytes * 10) % unit_bytes
        tenths == IF 2 * r > unit_bytes \/ (2 * r = unit_bytes /\ q % 2 = 1) THEN q + 1 ELSE q
    IN  IF num_bytes < 1024 * unit_bytes \/ Len(units) = 1
        THEN <<tenths, Head(units)>>
        ELSE FmtUnits(num_bytes, unit_bytes * 1024, Tail(units))

fmt_size(num_bytes) ==
    IF num_bytes < 1024 THEN <<num_bytes, "B">>
    ELSE FmtUnits(num_bytes, 1024, <<"KB", "MB", "GB", "TB", "PB">>)

\* fmt_time(ts): strftime("%Y-%m-%d %H:%M"), the time to the minute
fmt_time(ts) == <<"%Y-%m-%d %H:%M", ts \div 60>>

\* str(n) for a natural number: its decimal digits
RECURSIVE str(_)
str(n) ==
    LET digit == <<"0", "1", "2", "3", "4", "5", "6", "7", "8", "9">>[(n % 10) + 1]
    IN  IF n < 10 THEN <<digit>> ELSE str(n \div 10) \o <<digit>>

\* os.scandir(path): the entries of a directory
scandir(path) ==
    [k \in 1..Len(FSDirs[path].files) |-> [name |-> FSDirs[path].files[k], is_file |-> TRUE]]
    \o [k \in 1..Len(FSDirs[path].dirs) |-> [name |-> FSDirs[path].dirs[k], is_file |-> FALSE]]

\* is_binary_quick(path)
is_binary_quick(path) ==
    IF path \in DOMAIN FSFiles /\ path \notin env.fs.denied THEN FSFiles[path].binary ELSE TRUE

\* line.rstrip("\n")
RECURSIVE RStripNL(_)
RStripNL(line) ==
    IF line # <<>> /\ line[Len(line)] = "\n" THEN RStripNL(SubSeq(line, 1, Len(line) - 1))
    ELSE line

(***************************************************************************)
(* SearchRequest: what start_search_for_tab reads from the widgets of the  *)
(* tab.  pat is the primary pattern spec of the mode, cpat the             *)
(* content-filter pattern spec of File and Folder modes.                   *)
(***************************************************************************)
P_HI == [text |-> <<"h", "i">>, regex |-> FALSE, case |-> FALSE, whole |-> FALSE]
P_BAD == [text |-> <<"(">>, regex |-> TRUE, case |-> FALSE, whole |-> FALSE]
P_DOT_T == [text |-> <<".", "t">>, regex |-> FALSE, case |-> FALSE, whole |-> FALSE]
P_S == [text |-> <<"s">>, regex |-> FALSE, case |-> TRUE, whole |-> FALSE]

RequestBase ==
    [mode |-> "Text", directory |-> BASE, include_globs |-> <<>>, exclude_globs |-> <<>>, max_mb |-> 0,
     depth_limit |-> Missing, skip_hidden |-> TRUE, respect_gitignore |-> FALSE,
     use_ripgrep |-> FALSE, first_match_per_file |-> FALSE, filetype |-> <<"A", "l", "l">>,
     pat |-> P_HI, content_filter_on |-> FALSE, cpat |-> P_HI]

TextForms ==
    { [RequestBase EXCEPT !.use_ripgrep = rg, !.pat = p] : rg \in BOOLEAN, p \in {P_HI, P_BAD} }

FileForms ==
    { [RequestBase EXCEPT !.mode = "File", !.pat = p, !.content_filter_on = TRUE] :
          p \in {P_DOT_T, P_BAD} }

FolderForms ==
    { [RequestBase EXCEPT !.mode = "Folder", !.pat = P_S, !.content_filter_on = TRUE,
                          !.cpat = c] : c \in {P_HI, P_BAD} }

P_DOT == [text |-> <<".">>, regex |-> FALSE, case |-> FALSE, whole |-> FALSE]
P_OHI == [text |-> <<"o", "h", "i">>, regex |-> FALSE, case |-> FALSE, whole |-> FALSE]

FileBase == [RequestBase EXCEPT !.mode = "File", !.pat = P_DOT_T]
FolderBase == [RequestBase EXCEPT !.mode = "Folder", !.pat = P_S]

\* a malformed regular expression in each pattern entry of each mode, and
\* one in the content entry of File mode with the content filter off
MalformedForms ==
    { [RequestBase EXCEPT !.pat = P_BAD, !.use_ripgrep = rg] : rg \in BOOLEAN }
    \cup { [FileBase EXCEPT !.pat = P_BAD],
           [FileBase EXCEPT !.content_filter_on = TRUE, !.cpat = P_BAD],
           [FileBase EXCEPT !.cpat = P_BAD],
           [FolderBase EXCEPT !.pat = P_BAD],
           [FolderBase EXCEPT !.content_filter_on = TRUE, !.cpat = P_BAD] }

\* "First match per file" checked, with and without "Use ripgrep"
FirstMatchForms ==
    { [RequestBase EXCEPT !.first_match_per_file = TRUE, !.use_ripgrep = rg] : rg \in BOOLEAN }

\* a depth limit of 0 or 1
DepthForms == { [RequestBase EXCEPT !.depth_limit = Some(d)] : d \in {0, 1} }

\* hidden entries skipped, x excluded, .gitignore respected: each alone in
\* Text mode, and all three in each mode
PruneForms ==
    LET all(base) == [base EXCEPT !.exclude_globs = <<N_X>>, !.respect_gitignore = TRUE]
    IN  { all(RequestBase), all(FileBase), all(FolderBase),
          [RequestBase EXCEPT !.skip_hidden = FALSE, !.exclude_globs = <<N_X>>],
          [RequestBase EXCEPT !.skip_hidden = FALSE, !.respect_gitignore = TRUE],
          RequestBase }

\* .gitignore respected
IgnoreForms == { [RequestBase EXCEPT !.respect_gitignore = TRUE] }

\* Folder mode with a size cap of 1 MB, with and without the content filter
FolderContentForms ==
    { [FolderBase EXCEPT !.max_mb = 1, !.content_filter_on = on] : on \in BOOLEAN }

\* File mode: the name pattern "." or ".t", without the content filter and
\* with the content pattern "hi" or "ohi"
FileContentForms ==
    { [FileBase EXCEPT !.pat = p, !.content_filter_on = on, !.cpat = c] :
          p \in {P_DOT, P_DOT_T}, on \in BOOLEAN, c \in {P_HI, P_OHI} }
    \ { [FileBase EXCEPT !.pat = p, !.cpat = P_OHI] : p \in {P_DOT, P_DOT_T} }

\* Text mode, and File mode with and without the content filter
DeniedForms ==
    { RequestBase, [FileBase EXCEPT !.pat = P_DOT],
      [FileBase EXCEPT !.pat = P_DOT, !.content_filter_on = TRUE] }

\* Text mode, native: no filter; the file type ".t", a cap of 1 MB and the
\* .gitignore; the include glob "*.b"; the exclude glob "*.t" with hidden
\* entries kept
CountForms ==
    { RequestBase,
      [RequestBase EXCEPT !.filetype = <<".", "t">>, !.max_mb = 1, !.respect_gitignore = TRUE],
      [RequestBase EXCEPT !.include_globs = << <<"*", ".", "b">> >>],
      [RequestBase EXCEPT !.exclude_globs = << <<"*", ".", "t">> >>, !.skip_hidden = FALSE] }

\* File and Folder mode without the content filter: the same request with
\* three content patterns, one of them a regular expression that does not
\* parse
ContentOffForms ==
    { [base EXCEPT !.cpat = c] : base \in {FileBase, FolderBase}, c \in {P_HI, P_OHI, P_BAD} }

\* literal patterns: "cat", "Cat" and "cat." in Text mode and "cat" in File
\* mode, with and without "Match case" and "Whole word"
LiteralPatterns(texts) ==
    { [text |-> t, regex |-> FALSE, case |-> c, whole |-> wh] :
          t \in texts, c \in BOOLEAN, wh \in BOOLEAN }

LiteralForms ==
    { [RequestBase EXCEPT !.pat = p] :
          p \in LiteralPatterns({ <<"c", "a", "t">>, <<"C", "a", "t">>, <<"c", "a", "t", ".">> }) }
    \cup { [FileBase EXCEPT !.pat = p] : p \in LiteralPatterns({ <<"c", "a", "t">> }) }

ScanForms(tag) ==
    CASE tag = "malformed" -> MalformedForms
      [] tag = "literal" -> LiteralForms
      [] tag = "content_off" -> ContentOffForms
      [] tag = "count" -> CountForms
      [] tag = "first_match" -> FirstMatchForms
      [] tag = "depth" -> DepthForms
      [] tag = "prune" -> PruneForms
      [] tag = "ignore" -> IgnoreForms
      [] tag = "parse" -> IgnoreForms
      [] tag = "folder_content" -> FolderContentForms
      [] tag = "file_content" -> FileContentForms
      [] tag = "denied" -> DeniedForms

\* the values the widgets of the tab can hold when Search is pressed
Forms(m) ==
    IF env.forms = "basic"
    THEN CASE m = "Text" -> TextForms
           [] m = "File" -> FileForms
           [] m = "Folder" -> FolderForms
    ELSE { f \in ScanForms(env.forms) : f.mode = m }

Modes == {"Text", "File", "Folder"}

(***************************************************************************)
(* State.                                                                  *)
(***************************************************************************)
VARIABLES
    run,            \* number of start_search_for_tab calls so far
    stop_event,     \* the Event TabState.stop_event refers to now: TRUE = set
    pause_event,    \* TabState.pause_event: TRUE = set = running
    result_q,       \* the Queue TabState.result_q refers to now
    log_q,          \* the Queue TabState.log_q refers to now
    files_scanned,  \* TabState.files_scanned
    matches_found,  \* TabState.matches_found
    result_tree,    \* rows of the Treeview
    log_text,       \* lines of the log Text widget
    btn,            \* which of the Search / Pause / Stop buttons are enabled
    mode,           \* TabState.mode
    rg_path,        \* Grepper._rg_path
    pump,           \* the _pump_queues callback: position, locals, pending timers
    wk,             \* the worker threads: position and locals
    ui              \* requests made: pause/resume, clear, and mode changes after a start

vars == <<env, run, stop_event, pause_event, result_q, log_q, files_scanned, matches_found,
          result_tree, log_text, btn, mode, rg_path, pump, wk, ui>>

Workers == 1..MaxRuns

NoProc == [alive |-> FALSE, todo |-> <<>>, pipe |-> <<>>, stderr |-> ""]

\* a thread that was not started
NoEvent == [type |-> None, path |-> Missing, line_number |-> Missing, text |-> <<>>,
            files_searched |-> Missing]

NoEntry == [name |-> <<>>, is_file |-> FALSE]

\* what a thread has done so far (kept for the properties, not read by the
\* program): the directories the walk yielded to it, the paths it counted
\* in files_scanned, the records it put on the result queue, and how many
\* records it had put when the pause now in force was requested (0 when no
\* pause is in force)
NoHistory == [visited |-> <<>>, scanned |-> <<>>, emitted |-> <<>>, paused_at |-> 0]

\* the histories note a pause request, and that it was lifted
PauseNoted(l) == [l EXCEPT !.hist.paused_at = Len(l.hist.emitted)]
PauseLifted(l) == [l EXCEPT !.hist.paused_at = 0]

NoWorker ==
    [pc |-> "none", req |-> RequestBase, rules |-> <<>>, stack |-> <<>>, root |-> <<>>,
     dirs |-> <<>>, files |-> <<>>, fname |-> <<>>, dnames |-> <<>>, dname |-> <<>>,
     entries |-> <<>>, lines |-> <<>>, i |-> 0, size |-> 0,
     matched_this_file |-> FALSE, content_matched |-> FALSE, matched |-> FALSE,
     files_seen |-> 0, files_searched |-> Missing, proc |-> NoProc, line |-> <<>>,
     entry |-> NoEntry, raw |-> NoEvent,
     saw_stop |-> FALSE, hist |-> NoHistory]

InitTab ==
    /\ run = 0
    /\ stop_event = FALSE
    /\ pause_event = TRUE
    /\ result_q = <<>>
    /\ log_q = <<>>
    /\ files_scanned = 0
    /\ matches_found = 0
    /\ result_tree = <<>>
    /\ log_text = <<>>
    /\ btn = [search |-> TRUE, pause |-> FALSE, stop |-> FALSE]
    /\ mode = "Text"
    /\ pump = [pc |-> "idle", drained |-> FALSE, pending |-> 0, delay |-> 0]
    /\ wk = [w \in Workers |-> NoWorker]
    /\ ui = 0

(***************************************************************************)
(* Access to the objects the TabState holds now.  Every thread reads the   *)
(* attribute of the TabState at each use, so after start_search_for_tab    *)
(* has replaced an Event or a Queue no thread can reach the old object.    *)
(***************************************************************************)
StopIsSet == stop_event

\* a faulty Event whose set() flips the flag
StopFlips == stop_event' = ~stop_event

\* state.stop_event.set()
StopSet == stop_event' = TRUE

\* state.log_q.put(f"{text}{arg}\n"): a log line is its fixed text and the
\* value formatted into it (<<>> if none)
LogPut(text, arg) == log_q' = Append(log_q, [text |-> text, arg |-> arg])

\* a faulty put that drops what the queue holds
ResultPutOverwrites(values) == result_q' = <<values>>

\* a faulty queue of capacity 1: put blocks while an item is queued
ResultPutBlocksWhenFull(values) == result_q = <<>> /\ result_q' = Append(result_q, values)

\* state.result_q.put(values)
ResultPut(values) == result_q' = Append(result_q, values)

\* one more request made
Requested == ui' = ui + 1

MainThreadIdle == pump.pc = "idle"

(***************************************************************************)
(* Button and menu handlers (Tk main thread).                              *)
(***************************************************************************)
\* load_gitignore_rules(directory) if respect_gitignore else []
RulesFor(req) == IF req.respect_gitignore THEN load_gitignore_rules(req.directory) ELSE <<>>

\* a faulty start that leaves the pause event as the last run left it
StartSearchKeepsPause ==
    /\ MainThreadIdle
    /\ btn.search
    /\ run < env.runs
    /\ \E req \in Forms(mode) :
         wk' = [wk EXCEPT ![run + 1] =
                   [NoWorker EXCEPT !.pc = "entry", !.req = req, !.rules = RulesFor(req)]]
    /\ run' = run + 1
    /\ stop_event' = FALSE
    /\ result_q' = <<>>
    /\ log_q' = <<>>
    /\ files_scanned' = 0
    /\ matches_found' = 0
    /\ result_tree' = <<>>
    /\ log_text' = <<>>
    /\ btn' = [search |-> FALSE, pause |-> TRUE, stop |-> TRUE]
    /\ pump' = [pump EXCEPT !.pc = "drain", !.drained = FALSE]
    /\ UNCHANGED <<env, mode, rg_path, ui, pause_event>>

\* start_search_for_tab: reset the runtime, spawn the worker, run the first
\* _pump_queues call (which continues in the Pump actions)
StartSearch ==
    /\ MainThreadIdle
    /\ btn.search
    /\ run < env.runs
    /\ \E req \in Forms(mode) :
         wk' = [w \in Workers |->
                   IF w = run + 1
                   THEN [NoWorker EXCEPT !.pc = "entry", !.req = req, !.rules = RulesFor(req)]
                   ELSE PauseLifted(wk[w])]
    /\ run' = run + 1
    /\ stop_event' = FALSE
    /\ pause_event' = TRUE
    /\ result_q' = <<>>
    /\ log_q' = <<>>
    /\ files_scanned' = 0
    /\ matches_found' = 0
    /\ result_tree' = <<>>
    /\ log_text' = <<>>
    /\ btn' = [search |-> FALSE, pause |-> TRUE, stop |-> TRUE]
    /\ pump' = [pump EXCEPT !.pc = "drain", !.drained = FALSE]
    /\ UNCHANGED <<env, mode, rg_path, ui>>

\* pause_search
pause_search ==
    /\ pause_event' = FALSE
    /\ LogPut("Paused.", <<>>)
    /\ wk' = [w \in Workers |-> PauseNoted(wk[w])]

\* resume_search
resume_search ==
    /\ pause_event' = TRUE
    /\ LogPut("Resumed.", <<>>)
    /\ wk' = [w \in Workers |-> PauseLifted(wk[w])]

\* a faulty toggle that does not look at the stop event
TogglePauseResumeIgnoresStop ==
    /\ MainThreadIdle
    /\ btn.pause
    /\ ui < env.requests
    /\ Requested
    /\ IF pause_event THEN pause_search ELSE resume_search
    /\ UNCHANGED <<env, run, stop_event, result_q, files_scanned, matches_found, result_tree,
                   log_text, btn, mode, rg_path, pump>>

\* toggle_pause_resume (the Pause / Resume button)
TogglePauseResume ==
    /\ MainThreadIdle
    /\ btn.pause
    /\ ui < env.requests
    /\ Requested
    /\ IF StopIsSet
       THEN UNCHANGED <<pause_event, log_q, wk>>
       ELSE IF pause_event THEN pause_search ELSE resume_search
    /\ UNCHANGED <<env, run, stop_event, result_q, files_scanned, matches_found, result_tree,
                   log_text, btn, mode, rg_path, pump>>

\* stop_search (the Stop button)
StopSearch ==
    /\ MainThreadIdle
    /\ btn.stop
    /\ StopSet
    /\ LogPut("Stopping", <<>>)
    /\ btn' = [btn EXCEPT !.stop = FALSE, !.pause = FALSE]
    /\ UNCHANGED <<env, run, pause_event, result_q, files_scanned, matches_found, result_tree,
                   log_text, mode, rg_path, pump, wk, ui>>

\* clear_results (More > Clear Results)
ClearResults ==
    /\ MainThreadIdle
    /\ ui < env.requests
    /\ Requested
    /\ result_tree' = <<>>
    /\ LogPut("Cleared results.", <<>>)
    /\ files_scanned' = 0
    /\ matches_found' = 0
    /\ btn' = [search |-> TRUE, pause |-> FALSE, stop |-> FALSE]
    /\ UNCHANGED <<env, run, stop_event, pause_event, result_q, log_text, mode, rg_path, pump, wk>>

\* on_mode_change -> _reconfigure_tree_for_mode (the mode radio buttons)
ModeChange ==
    /\ MainThreadIdle
    /\ run = 0 \/ ui < env.requests
    /\ ui' = IF run = 0 THEN ui ELSE ui + 1
    /\ \E m \in Modes : mode' = m
    /\ result_tree' = <<>>
    /\ matches_found' = 0
    /\ files_scanned' = 0
    /\ UNCHANGED <<env, run, stop_event, pause_event, result_q, log_q, log_text, btn, rg_path,
                   pump, wk>>

(***************************************************************************)
(* _pump_queues.  One tick is two steps of the main thread: the drain      *)
(* (lines 1517-1552) and, after the status labels were redrawn, the        *)
(* decision to reschedule (lines 1554-1584); worker threads run between    *)
(* the two.                                                                *)
(***************************************************************************)
\* a timer set by root.after fires
PumpFire ==
    /\ MainThreadIdle
    /\ pump.pending > 0
    /\ pump' = [pump EXCEPT !.pc = "drain", !.drained = FALSE, !.pending = @ - 1,
                            !.delay = 0]
    /\ UNCHANGED <<env, run, stop_event, pause_event, result_q, log_q, files_scanned,
                   matches_found, result_tree, log_text, btn, mode, rg_path, wk, ui>>

\* a faulty drain that takes the newest item first
Reverse(q) == [k \in 1..Len(q) |-> q[Len(q) + 1 - k]]

PumpDrainsNewestFirst ==
    /\ pump.pc = "drain"
    /\ IF pause_event
       THEN LET n == Min(max_results_per_tick, Len(result_q))
                m == Min(max_logs_per_tick, Len(log_q))
            IN  /\ result_tree' = result_tree \o SubSeq(Reverse(result_q), 1, n)
                /\ result_q' = SubSeq(result_q, 1, Len(result_q) - n)
                /\ log_text' = log_text \o SubSeq(Reverse(log_q), 1, m)
                /\ log_q' = SubSeq(log_q, 1, Len(log_q) - m)
                /\ pump' = [pump EXCEPT !.pc = "decide", !.drained = (n > 0 \/ m > 0)]
       ELSE /\ pump' = [pump EXCEPT !.pc = "decide"]
            /\ UNCHANGED <<result_tree, result_q, log_text, log_q>>
    /\ UNCHANGED <<env, run, stop_event, pause_event, files_scanned, matches_found, btn,
                   mode, rg_path, wk, ui>>

\* a faulty drain that empties both queues in one tick
PumpDrainsAll ==
    /\ pump.pc = "drain"
    /\ IF pause_event
       THEN /\ result_tree' = result_tree \o result_q
            /\ result_q' = <<>>
            /\ log_text' = log_text \o log_q
            /\ log_q' = <<>>
            /\ pump' = [pump EXCEPT !.pc = "decide",
                                    !.drained = (result_q # <<>> \/ log_q # <<>>)]
       ELSE /\ pump' = [pump EXCEPT !.pc = "decide"]
            /\ UNCHANGED <<result_tree, result_q, log_text, log_q>>
    /\ UNCHANGED <<env, run, stop_event, pause_event, files_scanned, matches_found, btn,
                   mode, rg_path, wk, ui>>

\* a faulty drain that does not look at the pause event
PumpDrainIgnoresPause ==
    /\ pump.pc = "drain"
    /\ LET n == Min(max_results_per_tick, Len(result_q))
           m == Min(max_logs_per_tick, Len(log_q))
       IN  /\ result_tree' = result_tree \o SubSeq(result_q, 1, n)
           /\ result_q' = SubSeq(result_q, n + 1, Len(result_q))
           /\ log_text' = log_text \o SubSeq(log_q, 1, m)
           /\ log_q' = SubSeq(log_q, m + 1, Len(log_q))
           /\ pump' = [pump EXCEPT !.pc = "decide", !.drained = (n > 0 \/ m > 0)]
    /\ UNCHANGED <<env, run, stop_event, pause_event, files_scanned, matches_found, btn,
                   mode, rg_path, wk, ui>>

\* if state.pause_event.is_set(): move up to max_results_per_tick results
\* and up to max_logs_per_tick log lines to the widgets
PumpDrain ==
    /\ pump.pc = "drain"
    /\ IF pause_event
       THEN LET n == Min(max_results_per_tick, Len(result_q))
                m == Min(max_logs_per_tick, Len(log_q))
            IN  /\ result_tree' = result_tree \o SubSeq(result_q, 1, n)
                /\ result_q' = SubSeq(result_q, n + 1, Len(result_q))
                /\ log_text' = log_text \o SubSeq(log_q, 1, m)
                /\ log_q' = SubSeq(log_q, m + 1, Len(log_q))
                /\ pump' = [pump EXCEPT !.pc = "decide", !.drained = (n > 0 \/ m > 0)]
       ELSE /\ pump' = [pump EXCEPT !.pc = "decide"]
            /\ UNCHANGED <<result_tree, result_q, log_text, log_q>>
    /\ UNCHANGED <<env, run, stop_event, pause_event, files_scanned, matches_found, btn,
                   mode, rg_path, wk, ui>>

\* a faulty decision that takes the short delay whenever the tick drained
\* something
PumpDecideDelayByDrained ==
    /\ pump.pc = "decide"
    /\ IF ~StopIsSet \/ pump.drained
       THEN /\ pump' = [pump EXCEPT !.pc = "idle", !.pending = @ + 1,
                                    !.delay = IF pump.drained THEN DELAY_BACKLOG
                                              ELSE DELAY_IDLE]
            /\ UNCHANGED btn
       ELSE /\ pump' = [pump EXCEPT !.pc = "idle", !.delay = 0]
            /\ btn' = [search |-> TRUE, pause |-> FALSE, stop |-> FALSE]
    /\ UNCHANGED <<env, run, stop_event, pause_event, result_q, log_q, files_scanned,
                   matches_found, result_tree, log_text, mode, rg_path, wk, ui>>

\* a faulty decision that reschedules whenever there is a backlog
PumpDecideOnBacklog ==
    /\ pump.pc = "decide"
    /\ LET has_backlog == result_q # <<>> \/ log_q # <<>>
       IN  IF ~StopIsSet \/ pump.drained \/ has_backlog
           THEN /\ pump' = [pump EXCEPT !.pc = "idle", !.pending = @ + 1,
                                        !.delay = IF has_backlog THEN DELAY_BACKLOG
                                                  ELSE DELAY_IDLE]
                /\ UNCHANGED btn
           ELSE /\ pump' = [pump EXCEPT !.pc = "idle", !.delay = 0]
                /\ btn' = [search |-> TRUE, pause |-> FALSE, stop |-> FALSE]
    /\ UNCHANGED <<env, run, stop_event, pause_event, result_q, log_q, files_scanned,
                   matches_found, result_tree, log_text, mode, rg_path, wk, ui>>

\* has_backlog, and: reschedule, or report the run stopped (re-enable Search)
PumpDecide ==
    /\ pump.pc = "decide"
    /\ LET has_backlog == result_q # <<>> \/ log_q # <<>>
       IN  IF ~StopIsSet \/ pump.drained
           THEN /\ pump' = [pump EXCEPT !.pc = "idle", !.pending = @ + 1,
                                        !.delay = IF has_backlog THEN DELAY_BACKLOG
                                                  ELSE DELAY_IDLE]
                /\ UNCHANGED btn
           ELSE /\ pump' = [pump EXCEPT !.pc = "idle", !.delay = 0]
                /\ btn' = [search |-> TRUE, pause |-> FALSE, stop |-> FALSE]
    /\ UNCHANGED <<env, run, stop_event, pause_event, result_q, log_q, files_scanned,
                   matches_found, result_tree, log_text, mode, rg_path, wk, ui>>

(***************************************************************************)
(* _walk_with_depth: the generator over os.walk.  A worker keeps the       *)
(* directories still to visit in stack; root, dirs and files are the       *)
(* triple last yielded.  os.walk reads dirs again when it is resumed, so   *)
(* what the caller removed from dirs is not descended into.                *)
(***************************************************************************)
\* a faulty depth test that prunes one level too late
WalkDirsTooDeep(top, req, rules) ==
    LET cur_depth == Count(top, "/") - Count(req.directory, "/")
        d1 == IF req.depth_limit # Missing /\ cur_depth > req.depth_limit[1]
              THEN <<>> ELSE FSDirs[top].dirs
        d2 == IF req.skip_hidden
              THEN SelectSeq(d1, LAMBDA d : ~is_hidden_path(PathJoin(top, d))) ELSE d1
    IN  IF rules # <<>>
        THEN SelectSeq(d2, LAMBDA d :
                 ~gitignore_ignored(RelPath(PathJoin(top, d), req.directory), TRUE, rules))
        ELSE d2

\* the lists _walk_with_depth yields for the directory top
WalkDirs(top, req, rules) ==
    LET cur_depth == Count(top, "/") - Count(req.directory, "/")
        d1 == IF req.depth_limit # Missing /\ cur_depth >= req.depth_limit[1]
              THEN <<>> ELSE FSDirs[top].dirs
        d2 == IF req.skip_hidden
              THEN SelectSeq(d1, LAMBDA d : ~is_hidden_path(PathJoin(top, d))) ELSE d1
    IN  IF rules # <<>>
        THEN SelectSeq(d2, LAMBDA d :
                 ~gitignore_ignored(RelPath(PathJoin(top, d), req.directory), TRUE, rules))
        ELSE d2

WalkFiles(top, req, rules) ==
    LET f1 == FSDirs[top].files
        f2 == IF req.skip_hidden
              THEN SelectSeq(f1, LAMBDA f : ~is_hidden_path(PathJoin(top, f))) ELSE f1
    IN  IF rules # <<>>
        THEN SelectSeq(f2, LAMBDA f :
                 ~gitignore_ignored(RelPath(PathJoin(top, f), req.directory), FALSE, rules))
        ELSE f2

\* next(generator): the worker l resumes the walk; pcYield when a directory
\* is yielded, pcEnd when the walk is exhausted
_walk_with_depth(l, pcYield, pcEnd) ==
    LET stack1 == [k \in 1..Len(l.dirs) |-> PathJoin(l.root, l.dirs[k])] \o l.stack
    IN  IF stack1 = <<>>
        THEN [l EXCEPT !.pc = pcEnd, !.stack = <<>>, !.dirs = <<>>, !.files = <<>>]
        ELSE LET top == Head(stack1)
             IN  [l EXCEPT !.pc = pcYield, !.stack = Tail(stack1), !.root = top,
                           !.dirs = WalkDirs(top, l.req, l.rules),
                           !.files = WalkFiles(top, l.req, l.rules),
                           !.hist.visited = Append(@, top)]

\* a faulty exclude that rebinds dirs and leaves the list of os.walk as it is
ExcludeRebinds(dirs, exclude_globs) == dirs

\* dirs[:] = [d for d in dirs if not any(fnmatch.fnmatch(d, g) for g in exclude_globs)]
ExcludeDirs(dirs, exclude_globs) ==
    IF exclude_globs # <<>> THEN SelectSeq(dirs, LAMBDA d : ~AnyGlob(d, exclude_globs))
    ELSE dirs

\* a file name passes the include / exclude globs
GlobsPass(fname, req) ==
    /\ (req.include_globs = <<>> \/ AnyGlob(fname, req.include_globs))
    /\ ~(req.exclude_globs # <<>> /\ AnyGlob(fname, req.exclude_globs))

\* max_mb > 0 and size > max_mb * 1024 * 1024
OverCap(size, req) == req.max_mb > 0 /\ size > req.max_mb * BYTES_PER_MB

(***************************************************************************)
(* _worker_text, native scanner.  Each action is one access to the shared  *)
(* TabState plus the thread-local code up to the next access.              *)
(***************************************************************************)
\* a faulty compile step that accepts every pattern
CompileAccepts(p) == FALSE

\* the wrapped regex rf"\b{pattern}\b" has the parentheses of pattern
CompileFails(p) == p.regex /\ ReError(p.text)

\* what no worker thread touches
WorkerFrame ==
    UNCHANGED <<env, run, pause_event, result_tree, log_text, btn, mode, rg_path, pump, ui>>

\* a thread that returned: its locals are gone
Returned(l) ==
    [NoWorker EXCEPT !.pc = "done", !.req = l.req, !.saw_stop = l.saw_stop, !.hist = l.hist]

\* the worker l counts path in files_scanned
Counted(l, path) == [l EXCEPT !.hist.scanned = Append(@, path)]

\* the worker l puts the record values on the result queue
Emitted(l, values) == [l EXCEPT !.hist.emitted = Append(@, values)]

\* a read of state.stop_event.is_set() by the worker l that returned TRUE
SawStop(l) == [l EXCEPT !.saw_stop = TRUE]

\* line 1658: the for statement resumes the generator
TextWalk(l) ==
    _walk_with_depth([l EXCEPT !.fname = <<>>, !.lines = <<>>, !.line = <<>>, !.i = 0,
                               !.matched_this_file = FALSE],
                     "t_dir_stop", "t_final")

\* for fname in files: the next file, or back to the walk
TextNextFile(l) ==
    IF l.files = <<>> THEN TextWalk(l)
    ELSE [l EXCEPT !.pc = "t_file_stop", !.fname = Head(l.files), !.files = Tail(l.files),
                   !.lines = <<>>, !.line = <<>>, !.i = 0, !.matched_this_file = FALSE]

\* for i, line in enumerate(f, 1): the next line, or the next file
TextNextLine(l) ==
    IF l.lines = <<>> THEN TextNextFile(l)
    ELSE [l EXCEPT !.pc = "t_line_stop", !.line = Head(l.lines), !.lines = Tail(l.lines),
                   !.i = @ + 1]

\* lines 1641-1658 when the pattern compiles: on to the first directory
TextPrepared(l) == TextWalk([l EXCEPT !.stack = <<l.req.directory>>])

\* lines 1619-1658, up to the first access to the TabState: the ripgrep
\* adapter (line 1734), the fallback message (line 1638), the invalid-regex
\* message (line 1647), or the walk
t_entry(w) ==
    /\ wk[w].pc = "entry"
    /\ wk[w].req.mode = "Text"
    /\ LET l == wk[w]
       IN  IF l.req.use_ripgrep /\ rg_path # None
           THEN /\ LogPut("Using ripgrep (rg) backend.", <<>>)
                /\ wk' = [wk EXCEPT ![w].pc = "rg_popen"]
           ELSE IF l.req.use_ripgrep
                THEN /\ LogPut("ripgrep (rg) not found; falling back to Python scanner.", <<>>)
                     /\ wk' = [wk EXCEPT ![w] = IF CompileFails(l.req.pat)
                                                THEN [l EXCEPT !.pc = "t_invalid_log"]
                                                ELSE TextPrepared(l)]
                ELSE IF CompileFails(l.req.pat)
                     THEN /\ LogPut("Invalid regex", <<>>)
                          /\ wk' = [wk EXCEPT ![w].pc = "t_invalid_set"]
                     ELSE /\ UNCHANGED log_q
                          /\ wk' = [wk EXCEPT ![w] = TextPrepared(l)]
    /\ UNCHANGED <<stop_event, result_q, files_scanned, matches_found>>
    /\ WorkerFrame

\* line 1647, after the fallback message: state.log_q.put(f"Invalid regex: {e}\n")
t_invalid_log(w) ==
    /\ wk[w].pc = "t_invalid_log"
    /\ LogPut("Invalid regex", <<>>)
    /\ wk' = [wk EXCEPT ![w].pc = "t_invalid_set"]
    /\ UNCHANGED <<stop_event, result_q, files_scanned, matches_found>>
    /\ WorkerFrame

\* lines 1648-1649: state.stop_event.set(); return
t_invalid_set(w) ==
    /\ wk[w].pc = "t_invalid_set"
    /\ StopSet
    /\ wk' = [wk EXCEPT ![w] = Returned(wk[w])]
    /\ UNCHANGED <<result_q, log_q, files_scanned, matches_found>>
    /\ WorkerFrame

\* lines 1659-1662: if state.stop_event.is_set(): break; folder excludes
t_dir_stop(w) ==
    /\ wk[w].pc = "t_dir_stop"
    /\ IF StopIsSet
       THEN wk' = [wk EXCEPT ![w] = [SawStop(wk[w]) EXCEPT !.pc = "t_final"]]
       ELSE wk' = [wk EXCEPT ![w].pc = "t_dir_log",
                             ![w].dirs = ExcludeDirs(@, wk[w].req.exclude_globs)]
    /\ UNCHANGED <<stop_event, result_q, log_q, files_scanned, matches_found>>
    /\ WorkerFrame

\* line 1664: state.log_q.put(f"Scanning: {root}\n")
t_dir_log(w) ==
    /\ wk[w].pc = "t_dir_log"
    /\ LogPut("Scanning: ", wk[w].root)
    /\ wk' = [wk EXCEPT ![w] = TextNextFile(wk[w])]
    /\ UNCHANGED <<stop_event, result_q, files_scanned, matches_found>>
    /\ WorkerFrame

\* line 1667: if state.stop_event.is_set(): break (out of the file loop)
t_file_stop(w) ==
    /\ wk[w].pc = "t_file_stop"
    /\ IF StopIsSet
       THEN wk' = [wk EXCEPT ![w] = TextWalk(SawStop(wk[w]))]
       ELSE wk' = [wk EXCEPT ![w].pc = "t_file_pause"]
    /\ UNCHANGED <<stop_event, result_q, log_q, files_scanned, matches_found>>
    /\ WorkerFrame

\* line 1669: while not state.pause_event.is_set()
t_file_pause(w) ==
    /\ wk[w].pc = "t_file_pause"
    /\ wk' = [wk EXCEPT ![w].pc = IF pause_event THEN "t_file_body" ELSE "t_file_pause_stop"]
    /\ UNCHANGED <<stop_event, result_q, log_q, files_scanned, matches_found>>
    /\ WorkerFrame

\* a faulty pause loop that does not look at the stop flag
t_file_pause_sleep(w) ==
    /\ wk[w].pc = "t_file_pause_stop"
    /\ wk' = [wk EXCEPT ![w].pc = "t_file_pause"]
    /\ UNCHANGED <<stop_event, result_q, log_q, files_scanned, matches_found>>
    /\ WorkerFrame

\* lines 1670-1671: if state.stop_event.is_set(): break (out of the pause
\* loop only); time.sleep(0.05)
t_file_pause_stop(w) ==
    /\ wk[w].pc = "t_file_pause_stop"
    /\ IF StopIsSet
       THEN wk' = [wk EXCEPT ![w] = [SawStop(wk[w]) EXCEPT !.pc = "t_file_body"]]
       ELSE wk' = [wk EXCEPT ![w].pc = "t_file_pause"]
    /\ UNCHANGED <<stop_event, result_q, log_q, files_scanned, matches_found>>
    /\ WorkerFrame

\* lines 1674-1697: the filters, files_scanned += 1, the binary guard, open
\* a faulty body that counts a file only after the binary guard
t_file_body_counts_text_only(w) ==
    /\ wk[w].pc = "t_file_body"
    /\ LET l == wk[w]
           fpath == PathJoin(l.root, l.fname)
       IN  IF \/ (l.req.filetype # <<"A", "l", "l">> /\ ~EndsWith(l.fname, l.req.filetype))
              \/ ~GlobsPass(l.fname, l.req)
              \/ OverCap(getsize(fpath), l.req)
              \/ is_binary_quick(fpath)
           THEN /\ wk' = [wk EXCEPT ![w] = TextNextFile(l)]
                /\ UNCHANGED files_scanned
           ELSE /\ files_scanned' = files_scanned + 1
                /\ wk' = [wk EXCEPT ![w] =
                              TextNextLine([Counted(l, fpath) EXCEPT
                                                !.matched_this_file = FALSE,
                                                !.lines = FSFiles[fpath].lines,
                                                !.i = 0])]
    /\ UNCHANGED <<stop_event, result_q, log_q, matches_found>>
    /\ WorkerFrame

t_file_body(w) ==
    /\ wk[w].pc = "t_file_body"
    /\ LET l == wk[w]
           fpath == PathJoin(l.root, l.fname)
       IN  IF \/ (l.req.filetype # <<"A", "l", "l">> /\ ~EndsWith(l.fname, l.req.filetype))
              \/ ~GlobsPass(l.fname, l.req)
              \/ OverCap(getsize(fpath), l.req)
           THEN /\ wk' = [wk EXCEPT ![w] = TextNextFile(l)]
                /\ UNCHANGED files_scanned
           ELSE /\ files_scanned' = files_scanned + 1
                /\ IF is_binary_quick(fpath)
                   THEN wk' = [wk EXCEPT ![w] = TextNextFile(Counted(l, fpath))]
                   ELSE wk' = [wk EXCEPT ![w] =
                                  TextNextLine([Counted(l, fpath) EXCEPT
                                                    !.matched_this_file = FALSE,
                                                    !.lines = FSFiles[fpath].lines,
                                                    !.i = 0])]
    /\ UNCHANGED <<stop_event, result_q, log_q, matches_found>>
    /\ WorkerFrame

\* line 1699: if state.stop_event.is_set(): break (out of the line loop)
t_line_stop(w) ==
    /\ wk[w].pc = "t_line_stop"
    /\ IF StopIsSet
       THEN wk' = [wk EXCEPT ![w] = TextNextFile(SawStop(wk[w]))]
       ELSE wk' = [wk EXCEPT ![w].pc = "t_line_pause"]
    /\ UNCHANGED <<stop_event, result_q, log_q, files_scanned, matches_found>>
    /\ WorkerFrame

\* a faulty pause check that lets a paused worker go on
t_line_pause_passes(w) ==
    /\ wk[w].pc = "t_line_pause"
    /\ wk' = [wk EXCEPT ![w].pc = "t_line_match"]
    /\ UNCHANGED <<stop_event, result_q, log_q, files_scanned, matches_found>>
    /\ WorkerFrame

\* line 1700: while not state.pause_event.is_set()
t_line_pause(w) ==
    /\ wk[w].pc = "t_line_pause"
    /\ wk' = [wk EXCEPT ![w].pc = IF pause_event THEN "t_line_match" ELSE "t_line_pause_stop"]
    /\ UNCHANGED <<stop_event, result_q, log_q, files_scanned, matches_found>>
    /\ WorkerFrame

\* lines 1701-1702: if state.stop_event.is_set(): break (out of the pause
\* loop only); time.sleep(0.01)
t_line_pause_stop(w) ==
    /\ wk[w].pc = "t_line_pause_stop"
    /\ IF StopIsSet
       THEN wk' = [wk EXCEPT ![w] = [SawStop(wk[w]) EXCEPT !.pc = "t_line_match"]]
       ELSE wk' = [wk EXCEPT ![w].pc = "t_line_pause"]
    /\ UNCHANGED <<stop_event, result_q, log_q, files_scanned, matches_found>>
    /\ WorkerFrame

\* lines 1703-1704: if is_match(line): state.matches_found += 1
t_line_match(w) ==
    /\ wk[w].pc = "t_line_match"
    /\ IF Matches(wk[w].req.pat, wk[w].line)
       THEN /\ matches_found' = matches_found + 1
            /\ wk' = [wk EXCEPT ![w].pc = "t_line_put"]
       ELSE /\ UNCHANGED matches_found
            /\ wk' = [wk EXCEPT ![w] = TextNextLine(wk[w])]
    /\ UNCHANGED <<stop_event, result_q, log_q, files_scanned>>
    /\ WorkerFrame

\* a faulty put that goes on with the next line whatever first_match_per_file is
t_line_put_goes_on(w) ==
    /\ wk[w].pc = "t_line_put"
    /\ LET l == wk[w]
           values == <<PathJoin(l.root, l.fname), l.i, RStripNL(l.line)>>
       IN  /\ ResultPut(values)
           /\ wk' = [wk EXCEPT ![w] =
                        TextNextLine([Emitted(l, values) EXCEPT !.matched_this_file = TRUE])]
    /\ UNCHANGED <<stop_event, log_q, files_scanned, matches_found>>
    /\ WorkerFrame

\* lines 1705-1710: state.result_q.put((fpath, i, line.rstrip("\n")))
t_line_put(w) ==
    /\ wk[w].pc = "t_line_put"
    /\ LET l == wk[w]
           values == <<PathJoin(l.root, l.fname), l.i, RStripNL(l.line)>>
           l2 == [Emitted(l, values) EXCEPT !.matched_this_file = TRUE]
       IN  /\ ResultPut(values)
           /\ wk' = [wk EXCEPT ![w] =
                        IF l.req.first_match_per_file THEN TextNextFile(l2)
                        ELSE TextNextLine(l2)]
    /\ UNCHANGED <<stop_event, log_q, files_scanned, matches_found>>
    /\ WorkerFrame

\* a faulty end of the worker that returns without setting the flag
t_final_returns(w) ==
    /\ wk[w].pc = "t_final"
    /\ wk' = [wk EXCEPT ![w] = Returned(wk[w])]
    /\ UNCHANGED <<stop_event, result_q, log_q, files_scanned, matches_found>>
    /\ WorkerFrame

\* line 1714: state.stop_event.set()
t_final(w) ==
    /\ wk[w].pc = "t_final"
    /\ StopSet
    /\ wk' = [wk EXCEPT ![w] = Returned(wk[w])]
    /\ UNCHANGED <<result_q, log_q, files_scanned, matches_found>>
    /\ WorkerFrame

_worker_text(w) ==
    \/ t_entry(w) \/ t_invalid_log(w) \/ t_invalid_set(w) \/ t_dir_stop(w)
    \/ t_dir_log(w) \/ t_file_stop(w) \/ t_file_pause(w) \/ t_file_pause_stop(w)
    \/ t_file_body(w) \/ t_line_stop(w) \/ t_line_pause(w) \/ t_line_pause_stop(w)
    \/ t_line_match(w) \/ t_line_put(w) \/ t_final(w)

(***************************************************************************)
(* _worker_file.                                                           *)
(***************************************************************************)
\* line 1884: the for statement resumes the generator
FileWalk(l) ==
    _walk_with_depth([l EXCEPT !.fname = <<>>, !.lines = <<>>, !.line = <<>>, !.size = 0,
                               !.content_matched = FALSE],
                     "f_dir_stop", "f_final")

\* for fname in files: the next file, or back to the walk
FileNextFile(l) ==
    IF l.files = <<>> THEN FileWalk(l)
    ELSE [l EXCEPT !.pc = "f_file_stop", !.fname = Head(l.files), !.files = Tail(l.files),
                   !.lines = <<>>, !.line = <<>>, !.size = 0, !.content_matched = FALSE]

\* for line in f: the next line; at the end of the file content_matched is
\* False and line 1938 continues with the next file
FileNextLine(l) ==
    IF l.lines = <<>> THEN FileNextFile(l)
    ELSE [l EXCEPT !.pc = "f_line_stop", !.line = Head(l.lines), !.lines = Tail(l.lines)]

\* a faulty check that takes every line for a match
FileLinePasses(l) ==
    [l EXCEPT !.pc = "f_passed", !.content_matched = TRUE, !.lines = <<>>, !.line = <<>>]

\* lines 1932-1939, after the pause loop: if match_content(line): break
FileLineChecked(l) ==
    IF Matches(l.req.cpat, l.line)
    THEN [l EXCEPT !.pc = "f_passed", !.content_matched = TRUE, !.lines = <<>>, !.line = <<>>]
    ELSE FileNextLine(l)

\* lines 1845-1884, up to the first access to the TabState: an invalid-regex
\* message (line 1852 or 1871), or the walk.  The content pattern is compiled
\* only if the content filter is on.
\* a faulty entry that compiles the content pattern whatever the toggle says
f_entry_compiles_content(w) ==
    /\ wk[w].pc = "entry"
    /\ wk[w].req.mode = "File"
    /\ LET l == wk[w]
       IN  IF CompileFails(l.req.pat)
           THEN /\ LogPut("Invalid filename regex", <<>>)
                /\ wk' = [wk EXCEPT ![w].pc = "f_invalid_set"]
           ELSE IF CompileFails(l.req.cpat)
                THEN /\ LogPut("Invalid content regex", <<>>)
                     /\ wk' = [wk EXCEPT ![w].pc = "f_invalid_set"]
                ELSE /\ UNCHANGED log_q
                     /\ wk' = [wk EXCEPT ![w] = FileWalk([l EXCEPT !.stack = <<l.req.directory>>])]
    /\ UNCHANGED <<stop_event, result_q, files_scanned, matches_found>>
    /\ WorkerFrame

f_entry(w) ==
    /\ wk[w].pc = "entry"
    /\ wk[w].req.mode = "File"
    /\ LET l == wk[w]
       IN  IF CompileFails(l.req.pat)
           THEN /\ LogPut("Invalid filename regex", <<>>)
                /\ wk' = [wk EXCEPT ![w].pc = "f_invalid_set"]
           ELSE IF l.req.content_filter_on /\ CompileFails(l.req.cpat)
                THEN /\ LogPut("Invalid content regex", <<>>)
                     /\ wk' = [wk EXCEPT ![w].pc = "f_invalid_set"]
                ELSE /\ UNCHANGED log_q
                     /\ wk' = [wk EXCEPT ![w] = FileWalk([l EXCEPT !.stack = <<l.req.directory>>])]
    /\ UNCHANGED <<stop_event, result_q, files_scanned, matches_found>>
    /\ WorkerFrame

\* lines 1853-1854 and 1872-1873: state.stop_event.set(); return
f_invalid_set(w) ==
    /\ wk[w].pc = "f_invalid_set"
    /\ StopSet
    /\ wk' = [wk EXCEPT ![w] = Returned(wk[w])]
    /\ UNCHANGED <<result_q, log_q, files_scanned, matches_found>>
    /\ WorkerFrame

\* lines 1885-1888: if state.stop_event.is_set(): break; folder excludes
f_dir_stop(w) ==
    /\ wk[w].pc = "f_dir_stop"
    /\ IF StopIsSet
       THEN wk' = [wk EXCEPT ![w] = [SawStop(wk[w]) EXCEPT !.pc = "f_final"]]
       ELSE wk' = [wk EXCEPT ![w].pc = "f_dir_log",
                             ![w].dirs = ExcludeDirs(@, wk[w].req.exclude_globs)]
    /\ UNCHANGED <<stop_event, result_q, log_q, files_scanned, matches_found>>
    /\ WorkerFrame

\* line 1890: state.log_q.put(f"Scanning: {root}\n")
f_dir_log(w) ==
    /\ wk[w].pc = "f_dir_log"
    /\ LogPut("Scanning: ", wk[w].root)
    /\ wk' = [wk EXCEPT ![w] = FileNextFile(wk[w])]
    /\ UNCHANGED <<stop_event, result_q, files_scanned, matches_found>>
    /\ WorkerFrame

\* line 1893: if state.stop_event.is_set(): break (out of the file loop)
f_file_stop(w) ==
    /\ wk[w].pc = "f_file_stop"
    /\ IF StopIsSet
       THEN wk' = [wk EXCEPT ![w] = FileWalk(SawStop(wk[w]))]
       ELSE wk' = [wk EXCEPT ![w].pc = "f_file_pause"]
    /\ UNCHANGED <<stop_event, result_q, log_q, files_scanned, matches_found>>
    /\ WorkerFrame

\* line 1894: while not state.pause_event.is_set()
f_file_pause(w) ==
    /\ wk[w].pc = "f_file_pause"
    /\ wk' = [wk EXCEPT ![w].pc = IF pause_event THEN "f_file_body" ELSE "f_file_pause_stop"]
    /\ UNCHANGED <<stop_event, result_q, log_q, files_scanned, matches_found>>
    /\ WorkerFrame

\* lines 1895-1896: if state.stop_event.is_set(): break (out of the pause
\* loop only); time.sleep(0.05)
f_file_pause_stop(w) ==
    /\ wk[w].pc = "f_file_pause_stop"
    /\ IF StopIsSet
       THEN wk' = [wk EXCEPT ![w] = [SawStop(wk[w]) EXCEPT !.pc = "f_file_body"]]
       ELSE wk' = [wk EXCEPT ![w].pc = "f_file_pause"]
    /\ UNCHANGED <<stop_event, result_q, log_q, files_scanned, matches_found>>
    /\ WorkerFrame

\* lines 1898-1926: the globs, the size cap, files_scanned += 1, the name
\* predicate, and with the content filter the binary guard and open
f_file_body(w) ==
    /\ wk[w].pc = "f_file_body"
    /\ LET l == wk[w]
           fpath == PathJoin(l.root, l.fname)
           size == getsize(fpath)
       IN  IF ~GlobsPass(l.fname, l.req) \/ OverCap(size, l.req)
           THEN /\ wk' = [wk EXCEPT ![w] = FileNextFile(l)]
                /\ UNCHANGED files_scanned
           ELSE /\ files_scanned' = files_scanned + 1
                /\ wk' = [wk EXCEPT ![w] =
                             LET l2 == Counted(l, fpath)
                             IN  IF ~Matches(l.req.pat, l.fname) THEN FileNextFile(l2)
                                 ELSE IF ~l.req.content_filter_on
                                      THEN [l2 EXCEPT !.pc = "f_passed", !.size = size]
                                      ELSE IF is_binary_quick(fpath) THEN FileNextFile(l2)
                                           ELSE FileNextLine([l2 EXCEPT
                                                    !.size = size,
                                                    !.lines = FSFiles[fpath].lines])]
    /\ UNCHANGED <<stop_event, result_q, log_q, matches_found>>
    /\ WorkerFrame

\* line 1928: if state.stop_event.is_set(): break (out of the line loop;
\* content_matched is False, so line 1939 continues with the next file)
f_line_stop(w) ==
    /\ wk[w].pc = "f_line_stop"
    /\ IF StopIsSet
       THEN wk' = [wk EXCEPT ![w] = FileNextFile(SawStop(wk[w]))]
       ELSE wk' = [wk EXCEPT ![w].pc = "f_line_pause"]
    /\ UNCHANGED <<stop_event, result_q, log_q, files_scanned, matches_found>>
    /\ WorkerFrame

\* line 1929: while not state.pause_event.is_set(); then lines 1932-1939
f_line_pause(w) ==
    /\ wk[w].pc = "f_line_pause"
    /\ wk' = [wk EXCEPT ![w] = IF pause_event THEN FileLineChecked(wk[w])
                               ELSE [wk[w] EXCEPT !.pc = "f_line_pause_stop"]]
    /\ UNCHANGED <<stop_event, result_q, log_q, files_scanned, matches_found>>
    /\ WorkerFrame

\* lines 1930-1931: if state.stop_event.is_set(): break (out of the pause
\* loop only, then lines 1932-1939); time.sleep(0.01)
f_line_pause_stop(w) ==
    /\ wk[w].pc = "f_line_pause_stop"
    /\ IF StopIsSet
       THEN wk' = [wk EXCEPT ![w] = FileLineChecked(SawStop(wk[w]))]
       ELSE wk' = [wk EXCEPT ![w].pc = "f_line_pause"]
    /\ UNCHANGED <<stop_event, result_q, log_q, files_scanned, matches_found>>
    /\ WorkerFrame

\* line 1942: state.matches_found += 1
f_passed(w) ==
    /\ wk[w].pc = "f_passed"
    /\ matches_found' = matches_found + 1
    /\ wk' = [wk EXCEPT ![w].pc = "f_put"]
    /\ UNCHANGED <<stop_event, result_q, log_q, files_scanned>>
    /\ WorkerFrame

\* lines 1943-1947: state.result_q.put((fpath, size, modified, content flag))
f_put(w) ==
    /\ wk[w].pc = "f_put"
    /\ LET l == wk[w]
           fpath == PathJoin(l.root, l.fname)
           values == <<fpath, fmt_size(l.size), fmt_time(getmtime(fpath)),
                       IF l.req.content_filter_on THEN "Y" ELSE "-">>
       IN  /\ ResultPut(values)
           /\ wk' = [wk EXCEPT ![w] = FileNextFile(Emitted(l, values))]
    /\ UNCHANGED <<stop_event, log_q, files_scanned, matches_found>>
    /\ WorkerFrame

\* line 1949: state.stop_event.set()
f_final(w) ==
    /\ wk[w].pc = "f_final"
    /\ StopSet
    /\ wk' = [wk EXCEPT ![w] = Returned(wk[w])]
    /\ UNCHANGED <<result_q, log_q, files_scanned, matches_found>>
    /\ WorkerFrame

_worker_file(w) ==
    \/ f_entry(w) \/ f_invalid_set(w) \/ f_dir_stop(w) \/ f_dir_log(w) \/ f_file_stop(w)
    \/ f_file_pause(w) \/ f_file_pause_stop(w) \/ f_file_body(w) \/ f_line_stop(w)
    \/ f_line_pause(w) \/ f_line_pause_stop(w) \/ f_passed(w) \/ f_put(w) \/ f_final(w)

(***************************************************************************)
(* _worker_folder and its inner folder_content_matches.                    *)
(***************************************************************************)
\* line 2078: the for statement resumes the generator
FolderWalk(l) ==
    _walk_with_depth([l EXCEPT !.dname = <<>>, !.dnames = <<>>, !.entries = <<>>,
                               !.entry = NoEntry, !.lines = <<>>, !.line = <<>>,
                               !.files_seen = 0, !.matched = FALSE],
                     "d_dir_stop", "d_final")

\* line 2087, for dname in list(dirs): the next name, or back to the walk
FolderNextDir(l) ==
    IF l.dnames = <<>> THEN FolderWalk(l)
    ELSE [l EXCEPT !.pc = "d_name_stop", !.dname = Head(l.dnames), !.dnames = Tail(l.dnames),
                   !.entries = <<>>, !.entry = NoEntry, !.lines = <<>>, !.line = <<>>,
                   !.files_seen = 0, !.matched = FALSE]

\* a faulty return that emits the folder whatever the content scan found
FolderReturnedAnyway(l, matched) ==
    [l EXCEPT !.pc = "d_passed", !.matched = matched, !.entries = <<>>,
              !.entry = NoEntry, !.lines = <<>>, !.line = <<>>]

\* lines 2099-2101: folder_content_matches has returned (matched, files_seen)
FolderReturned(l, matched) ==
    IF l.req.content_filter_on /\ ~matched THEN FolderNextDir(l)
    ELSE [l EXCEPT !.pc = "d_passed", !.matched = matched, !.entries = <<>>,
                   !.entry = NoEntry, !.lines = <<>>, !.line = <<>>]

\* line 2021, for entry in os.scandir(folder_path): the next entry, or
\* line 2076: return matched, files_seen (matched is False there)
ScanNextEntry(l) ==
    IF l.entries = <<>> THEN FolderReturned(l, FALSE)
    ELSE [l EXCEPT !.pc = "s_entry_stop", !.entry = Head(l.entries),
                   !.entries = Tail(l.entries), !.lines = <<>>, !.line = <<>>]

\* line 2061, for line in f: the next line, or the next entry
ScanNextLine(l) ==
    IF l.lines = <<>> THEN ScanNextEntry(l)
    ELSE [l EXCEPT !.pc = "s_line_stop", !.line = Head(l.lines), !.lines = Tail(l.lines)]

\* lines 2029-2060, after the pause loop: the entry filters, files_seen += 1,
\* the binary guard and open
ScanEntryBody(l) ==
    LET path == PathJoin(PathJoin(l.root, l.dname), l.entry.name)
    IN  IF \/ ~l.entry.is_file
           \/ l.req.skip_hidden /\ is_hidden_path(path)
           \/ ~GlobsPass(l.entry.name, l.req)
           \/ l.rules # <<>> /\ gitignore_ignored(RelPath(path, l.req.directory), FALSE, l.rules)
           \/ OverCap(getsize(path), l.req)
        THEN ScanNextEntry(l)
        ELSE LET l2 == [l EXCEPT !.files_seen = @ + 1]
             IN  IF ~l.req.content_filter_on \/ is_binary_quick(path)
                 THEN ScanNextEntry(l2)
                 ELSE ScanNextLine([l2 EXCEPT !.lines = FSFiles[path].lines])

\* lines 2068-2070, after the pause loop: return True, files_seen
ScanLineChecked(l) ==
    IF Matches(l.req.cpat, l.line) THEN FolderReturned(l, TRUE) ELSE ScanNextLine(l)

\* lines 1971-2078, up to the first access to the TabState
d_entry(w) ==
    /\ wk[w].pc = "entry"
    /\ wk[w].req.mode = "Folder"
    /\ LET l == wk[w]
       IN  IF CompileFails(l.req.pat)
           THEN /\ LogPut("Invalid folder regex", <<>>)
                /\ wk' = [wk EXCEPT ![w].pc = "d_invalid_set"]
           ELSE IF l.req.content_filter_on /\ CompileFails(l.req.cpat)
                THEN /\ LogPut("Invalid content regex", <<>>)
                     /\ wk' = [wk EXCEPT ![w].pc = "d_invalid_set"]
                ELSE /\ UNCHANGED log_q
                     /\ wk' = [wk EXCEPT ![w] = FolderWalk([l EXCEPT !.stack = <<l.req.directory>>])]
    /\ UNCHANGED <<stop_event, result_q, files_scanned, matches_found>>
    /\ WorkerFrame

\* lines 1982-1983 and 2003-2004: state.stop_event.set(); return
d_invalid_set(w) ==
    /\ wk[w].pc = "d_invalid_set"
    /\ StopSet
    /\ wk' = [wk EXCEPT ![w] = Returned(wk[w])]
    /\ UNCHANGED <<result_q, log_q, files_scanned, matches_found>>
    /\ WorkerFrame

\* lines 2079-2083: if state.stop_event.is_set(): break; folder excludes
d_dir_stop(w) ==
    /\ wk[w].pc = "d_dir_stop"
    /\ IF StopIsSet
       THEN wk' = [wk EXCEPT ![w] = [SawStop(wk[w]) EXCEPT !.pc = "d_final"]]
       ELSE wk' = [wk EXCEPT ![w].pc = "d_dir_log",
                             ![w].dirs = ExcludeDirs(@, wk[w].req.exclude_globs)]
    /\ UNCHANGED <<stop_event, result_q, log_q, files_scanned, matches_found>>
    /\ WorkerFrame

\* lines 2085-2087: state.log_q.put(f"Scanning: {root}\n"); list(dirs)
d_dir_log(w) ==
    /\ wk[w].pc = "d_dir_log"
    /\ LogPut("Scanning: ", wk[w].root)
    /\ wk' = [wk EXCEPT ![w] = FolderNextDir([wk[w] EXCEPT !.dnames = wk[w].dirs])]
    /\ UNCHANGED <<stop_event, result_q, files_scanned, matches_found>>
    /\ WorkerFrame

\* line 2088: if state.stop_event.is_set(): break (out of the name loop)
d_name_stop(w) ==
    /\ wk[w].pc = "d_name_stop"
    /\ IF StopIsSet
       THEN wk' = [wk EXCEPT ![w] = FolderWalk(SawStop(wk[w]))]
       ELSE wk' = [wk EXCEPT ![w].pc = "d_name_pause"]
    /\ UNCHANGED <<stop_event, result_q, log_q, files_scanned, matches_found>>
    /\ WorkerFrame

\* line 2090: while not state.pause_event.is_set()
d_name_pause(w) ==
    /\ wk[w].pc = "d_name_pause"
    /\ wk' = [wk EXCEPT ![w].pc = IF pause_event THEN "d_name_body" ELSE "d_name_pause_stop"]
    /\ UNCHANGED <<stop_event, result_q, log_q, files_scanned, matches_found>>
    /\ WorkerFrame

\* lines 2091-2093: if state.stop_event.is_set(): break (out of the pause
\* loop only); time.sleep(0.05)
d_name_pause_stop(w) ==
    /\ wk[w].pc = "d_name_pause_stop"
    /\ IF StopIsSet
       THEN wk' = [wk EXCEPT ![w] = [SawStop(wk[w]) EXCEPT !.pc = "d_name_body"]]
       ELSE wk' = [wk EXCEPT ![w].pc = "d_name_pause"]
    /\ UNCHANGED <<stop_event, result_q, log_q, files_scanned, matches_found>>
    /\ WorkerFrame

\* lines 2095-2099 and 2018-2021: state.files_scanned += 1, the name
\* predicate, and the call of folder_content_matches up to os.scandir
d_name_body(w) ==
    /\ wk[w].pc = "d_name_body"
    /\ files_scanned' = files_scanned + 1
    /\ LET l == Counted(wk[w], PathJoin(wk[w].root, wk[w].dname))
       IN  wk' = [wk EXCEPT ![w] =
                     IF ~Matches(l.req.pat, l.dname) THEN FolderNextDir(l)
                     ELSE ScanNextEntry([l EXCEPT !.entries = scandir(PathJoin(l.root, l.dname)),
                                                  !.files_seen = 0, !.matched = FALSE])]
    /\ UNCHANGED <<stop_event, result_q, log_q, matches_found>>
    /\ WorkerFrame

\* lines 2022-2023: if state.stop_event.is_set(): break, and line 2076
\* returns (False, files_seen)
s_entry_stop(w) ==
    /\ wk[w].pc = "s_entry_stop"
    /\ IF StopIsSet
       THEN wk' = [wk EXCEPT ![w] = FolderReturned(SawStop(wk[w]), FALSE)]
       ELSE wk' = [wk EXCEPT ![w].pc = "s_entry_pause"]
    /\ UNCHANGED <<stop_event, result_q, log_q, files_scanned, matches_found>>
    /\ WorkerFrame

\* line 2024: while not state.pause_event.is_set(); then lines 2029-2060
s_entry_pause(w) ==
    /\ wk[w].pc = "s_entry_pause"
    /\ wk' = [wk EXCEPT ![w] = IF pause_event THEN ScanEntryBody(wk[w])
                               ELSE [wk[w] EXCEPT !.pc = "s_entry_pause_stop"]]
    /\ UNCHANGED <<stop_event, result_q, log_q, files_scanned, matches_found>>
    /\ WorkerFrame

\* lines 2025-2027: if state.stop_event.is_set(): break (out of the pause
\* loop only, then lines 2029-2060); time.sleep(0.05)
s_entry_pause_stop(w) ==
    /\ wk[w].pc = "s_entry_pause_stop"
    /\ IF StopIsSet
       THEN wk' = [wk EXCEPT ![w] = ScanEntryBody(SawStop(wk[w]))]
       ELSE wk' = [wk EXCEPT ![w].pc = "s_entry_pause"]
    /\ UNCHANGED <<stop_event, result_q, log_q, files_scanned, matches_found>>
    /\ WorkerFrame

\* lines 2062-2063: if state.stop_event.is_set(): break (out of the line
\* loop; the entry loop goes on)
s_line_stop(w) ==
    /\ wk[w].pc = "s_line_stop"
    /\ IF StopIsSet
       THEN wk' = [wk EXCEPT ![w] = ScanNextEntry(SawStop(wk[w]))]
       ELSE wk' = [wk EXCEPT ![w].pc = "s_line_pause"]
    /\ UNCHANGED <<stop_event, result_q, log_q, files_scanned, matches_found>>
    /\ WorkerFrame

\* line 2064: while not state.pause_event.is_set(); then lines 2068-2070
s_line_pause(w) ==
    /\ wk[w].pc = "s_line_pause"
    /\ wk' = [wk EXCEPT ![w] = IF pause_event THEN ScanLineChecked(wk[w])
                               ELSE [wk[w] EXCEPT !.pc = "s_line_pause_stop"]]
    /\ UNCHANGED <<stop_event, result_q, log_q, files_scanned, matches_found>>
    /\ WorkerFrame

\* lines 2065-2067: if state.stop_event.is_set(): break (out of the pause
\* loop only, then lines 2068-2070); time.sleep(0.01)
s_line_pause_stop(w) ==
    /\ wk[w].pc = "s_line_pause_stop"
    /\ IF StopIsSet
       THEN wk' = [wk EXCEPT ![w] = ScanLineChecked(SawStop(wk[w]))]
       ELSE wk' = [wk EXCEPT ![w].pc = "s_line_pause"]
    /\ UNCHANGED <<stop_event, result_q, log_q, files_scanned, matches_found>>
    /\ WorkerFrame

folder_content_matches(w) ==
    \/ s_entry_stop(w) \/ s_entry_pause(w) \/ s_entry_pause_stop(w)
    \/ s_line_stop(w) \/ s_line_pause(w) \/ s_line_pause_stop(w)

\* line 2103: state.matches_found += 1
d_passed(w) ==
    /\ wk[w].pc = "d_passed"
    /\ matches_found' = matches_found + 1
    /\ wk' = [wk EXCEPT ![w].pc = "d_put"]
    /\ UNCHANGED <<stop_event, result_q, log_q, files_scanned>>
    /\ WorkerFrame

\* lines 2104-2108: state.result_q.put((folder_path, modified, content
\* flag, str(files_seen)))
d_put(w) ==
    /\ wk[w].pc = "d_put"
    /\ LET l == wk[w]
           folder_path == PathJoin(l.root, l.dname)
           values == <<folder_path, fmt_time(getmtime(folder_path)),
                       IF l.req.content_filter_on THEN "Y" ELSE "-", str(l.files_seen)>>
       IN  /\ ResultPut(values)
           /\ wk' = [wk EXCEPT ![w] = FolderNextDir(Emitted(l, values))]
    /\ UNCHANGED <<stop_event, log_q, files_scanned, matches_found>>
    /\ WorkerFrame

\* line 2110: state.stop_event.set()
d_final(w) ==
    /\ wk[w].pc = "d_final"
    /\ StopSet
    /\ wk' = [wk EXCEPT ![w] = Returned(wk[w])]
    /\ UNCHANGED <<result_q, log_q, files_scanned, matches_found>>
    /\ WorkerFrame

_worker_folder(w) ==
    \/ d_entry(w) \/ d_invalid_set(w) \/ d_dir_stop(w) \/ d_dir_log(w) \/ d_name_stop(w)
    \/ d_name_pause(w) \/ d_name_pause_stop(w) \/ d_name_body(w)
    \/ folder_content_matches(w) \/ d_passed(w) \/ d_put(w) \/ d_final(w)

(***************************************************************************)
(* _worker_text_ripgrep and the rg child process it starts.  proc is the   *)
(* Popen object: alive until the child has exited, todo the output the     *)
(* child has still to write, pipe the lines written to stdout and not yet  *)
(* read, stderr what communicate() returns as err.  rg --json writes one   *)
(* JSON object per line: per file with a match a begin message, its match  *)
(* messages and an end message, written together, and a summary at the end.*)
(***************************************************************************)
\* the files under the directories of stack, in walk order
RECURSIVE TreeFiles(_)
TreeFiles(stack) ==
    IF stack = <<>> THEN <<>>
    ELSE LET top == Head(stack)
             here == FSDirs[top]
         IN  [k \in 1..Len(here.files) |-> PathJoin(top, here.files[k])]
             \o TreeFiles([k \in 1..Len(here.dirs) |-> PathJoin(top, here.dirs[k])] \o Tail(stack))

\* the files the command line of lines 1736-1771 makes rg search
RgSearched(req) ==
    SelectSeq(TreeFiles(<<req.directory>>), LAMBDA f :
        /\ ~is_binary_quick(f)
        /\ (req.skip_hidden => ~is_hidden_path(f))
        /\ ~OverCap(getsize(f), req)
        /\ GlobsPass(BaseName(f), req))

RgMessage(type, path, line_number, text) ==
    [NoEvent EXCEPT !.type = type, !.path = path, !.line_number = line_number, !.text = text]

\* the match messages of one file from line k on; -m 1 stops at the first
RECURSIVE RgMatches(_, _, _)
RgMatches(req, f, k) ==
    IF k > Len(FSFiles[f].lines) THEN <<>>
    ELSE IF Matches(req.pat, FSFiles[f].lines[k])
         THEN <<RgMessage("match", Some(f), Some(k), FSFiles[f].lines[k])>>
              \o (IF req.first_match_per_file THEN <<>> ELSE RgMatches(req, f, k + 1))
         ELSE RgMatches(req, f, k + 1)

\* what the child writes to stdout, one element per write
RgStdout(req) ==
    IF CompileFails(req.pat) THEN <<>>
    ELSE LET searched == RgSearched(req)
             hits == SelectSeq(searched, LAMBDA f : RgMatches(req, f, 1) # <<>>)
         IN  [k \in 1..Len(hits) |->
                 <<RgMessage("begin", Some(hits[k]), Missing, <<>>)>> \o RgMatches(req, hits[k], 1)
                 \o <<RgMessage("end", Some(hits[k]), Missing, <<>>)>>]
             \o << <<[NoEvent EXCEPT !.type = "summary", !.files_searched = Some(Len(searched))]>> >>

\* what the child writes to stderr
RgStderr(req) == IF CompileFails(req.pat) THEN "regex parse error" ELSE ""

\* lines 1736-1785: the command line and subprocess.Popen, which starts the
\* child or raises
rg_popen(w) ==
    /\ wk[w].pc = "rg_popen"
    /\ \E started \in BOOLEAN :
          IF started
          THEN /\ wk' = [wk EXCEPT ![w].pc = "rg_read",
                                   ![w].proc = [alive |-> TRUE, todo |-> RgStdout(wk[w].req),
                                                pipe |-> <<>>, stderr |-> RgStderr(wk[w].req)]]
               /\ UNCHANGED log_q
          ELSE /\ LogPut("Failed to start rg", <<>>)
               /\ wk' = [wk EXCEPT ![w].pc = "rg_fail_set"]
    /\ UNCHANGED <<stop_event, result_q, files_scanned, matches_found>>
    /\ WorkerFrame

\* lines 1784-1785: state.stop_event.set(); return
rg_fail_set(w) ==
    /\ wk[w].pc = "rg_fail_set"
    /\ StopSet
    /\ wk' = [wk EXCEPT ![w] = Returned(wk[w])]
    /\ UNCHANGED <<result_q, log_q, files_scanned, matches_found>>
    /\ WorkerFrame

\* the child process: one write to stdout; with the last one it exits
rg_child(w) ==
    /\ wk[w].proc.alive
    /\ LET c == wk[w].proc
       IN  wk' = [wk EXCEPT ![w].proc =
                     IF c.todo = <<>> THEN [c EXCEPT !.alive = FALSE]
                     ELSE [c EXCEPT !.pipe = @ \o Head(c.todo), !.todo = Tail(c.todo),
                                    !.alive = Len(c.todo) > 1]]
    /\ UNCHANGED <<stop_event, result_q, log_q, files_scanned, matches_found>>
    /\ WorkerFrame

\* line 1790, for raw in proc.stdout: blocks until a line is there or the
\* child has closed its end
rg_read(w) ==
    /\ wk[w].pc = "rg_read"
    /\ LET l == wk[w]
       IN  /\ l.proc.pipe # <<>> \/ ~l.proc.alive
           /\ wk' = [wk EXCEPT ![w] =
                        IF l.proc.pipe # <<>>
                        THEN [l EXCEPT !.pc = "rg_line_stop", !.raw = Head(l.proc.pipe),
                                       !.proc.pipe = Tail(l.proc.pipe)]
                        ELSE [l EXCEPT !.pc = "rg_after", !.raw = NoEvent]]
    /\ UNCHANGED <<stop_event, result_q, log_q, files_scanned, matches_found>>
    /\ WorkerFrame

\* lines 1798-1815, after the pause loop: json.loads and the message type
RgParsed(l) ==
    IF l.raw.type = "match" /\ l.raw.path # Missing /\ l.raw.line_number # Missing
    THEN [l EXCEPT !.pc = "rg_count"]
    ELSE IF l.raw.type = "summary"
         THEN [l EXCEPT !.pc = "rg_read", !.files_searched = l.raw.files_searched,
                        !.raw = NoEvent]
         ELSE [l EXCEPT !.pc = "rg_read", !.raw = NoEvent]

\* lines 1791-1792: if state.stop_event.is_set(): break
rg_line_stop(w) ==
    /\ wk[w].pc = "rg_line_stop"
    /\ IF StopIsSet
       THEN wk' = [wk EXCEPT ![w] = [SawStop(wk[w]) EXCEPT !.pc = "rg_after", !.raw = NoEvent]]
       ELSE wk' = [wk EXCEPT ![w].pc = "rg_line_pause"]
    /\ UNCHANGED <<stop_event, result_q, log_q, files_scanned, matches_found>>
    /\ WorkerFrame

\* line 1793: while not state.pause_event.is_set(); then lines 1798-1815
rg_line_pause(w) ==
    /\ wk[w].pc = "rg_line_pause"
    /\ wk' = [wk EXCEPT ![w] = IF pause_event THEN RgParsed(wk[w])
                               ELSE [wk[w] EXCEPT !.pc = "rg_line_pause_stop"]]
    /\ UNCHANGED <<stop_event, result_q, log_q, files_scanned, matches_found>>
    /\ WorkerFrame

\* lines 1794-1796: if state.stop_event.is_set(): break (out of the pause
\* loop only, then lines 1798-1815); time.sleep(0.05)
rg_line_pause_stop(w) ==
    /\ wk[w].pc = "rg_line_pause_stop"
    /\ IF StopIsSet
       THEN wk' = [wk EXCEPT ![w] = RgParsed(SawStop(wk[w]))]
       ELSE wk' = [wk EXCEPT ![w].pc = "rg_line_pause"]
    /\ UNCHANGED <<stop_event, result_q, log_q, files_scanned, matches_found>>
    /\ WorkerFrame

\* a faulty adapter that puts a match without counting it
rg_count_forgets(w) ==
    /\ wk[w].pc = "rg_count"
    /\ wk' = [wk EXCEPT ![w].pc = "rg_put"]
    /\ UNCHANGED <<stop_event, result_q, log_q, files_scanned, matches_found>>
    /\ WorkerFrame

\* line 1811: state.matches_found += 1
rg_count(w) ==
    /\ wk[w].pc = "rg_count"
    /\ matches_found' = matches_found + 1
    /\ wk' = [wk EXCEPT ![w].pc = "rg_put"]
    /\ UNCHANGED <<stop_event, result_q, log_q, files_scanned>>
    /\ WorkerFrame

\* line 1812: state.result_q.put((path, int(line_no), line_text))
rg_put(w) ==
    /\ wk[w].pc = "rg_put"
    /\ LET l == wk[w]
           values == <<l.raw.path[1], l.raw.line_number[1], RStripNL(l.raw.text)>>
       IN  /\ ResultPut(values)
           /\ wk' = [wk EXCEPT ![w] = [Emitted(l, values) EXCEPT !.pc = "rg_read",
                                                                !.raw = NoEvent]]
    /\ UNCHANGED <<stop_event, log_q, files_scanned, matches_found>>
    /\ WorkerFrame

\* lines 1817-1821: if state.stop_event.is_set() and proc.poll() is None:
\* proc.terminate()
\* a faulty end of the loop that leaves the child running
rg_after_leaves_child(w) ==
    /\ wk[w].pc = "rg_after"
    /\ wk' = [wk EXCEPT ![w].pc = "rg_communicate"]
    /\ UNCHANGED <<stop_event, result_q, log_q, files_scanned, matches_found>>
    /\ WorkerFrame

rg_after(w) ==
    /\ wk[w].pc = "rg_after"
    /\ LET l == wk[w]
       IN  wk' = [wk EXCEPT ![w] =
                     IF StopIsSet
                     THEN [l EXCEPT !.pc = "rg_communicate",
                                    !.proc = IF l.proc.alive
                                             THEN [l.proc EXCEPT !.alive = FALSE, !.todo = <<>>]
                                             ELSE l.proc]
                     ELSE [l EXCEPT !.pc = "rg_communicate"]]
    /\ UNCHANGED <<stop_event, result_q, log_q, files_scanned, matches_found>>
    /\ WorkerFrame

\* a faulty end of the adapter that never replaces the counter
rg_communicate_keeps_counter(w) ==
    /\ wk[w].pc = "rg_communicate"
    /\ LET l == wk[w]
       IN  /\ IF ~l.proc.alive /\ l.proc.stderr # ""
              THEN LogPut(l.proc.stderr, <<>>)
              ELSE UNCHANGED log_q
           /\ wk' = [wk EXCEPT ![w].pc = "rg_final", ![w].proc = NoProc]
    /\ UNCHANGED <<stop_event, result_q, files_scanned, matches_found>>
    /\ WorkerFrame

\* lines 1823-1835: proc.communicate(timeout=2) returns err when the child
\* has exited and err is logged if not empty; it raises when the child is
\* still running after the timeout and the child is killed
rg_communicate(w) ==
    /\ wk[w].pc = "rg_communicate"
    /\ LET l == wk[w]
       IN  /\ IF ~l.proc.alive /\ l.proc.stderr # ""
              THEN LogPut(l.proc.stderr, <<>>)
              ELSE UNCHANGED log_q
           /\ wk' = [wk EXCEPT ![w].pc = IF l.files_searched # Missing THEN "rg_scanned"
                                         ELSE "rg_final",
                               ![w].proc = NoProc]
    /\ UNCHANGED <<stop_event, result_q, files_scanned, matches_found>>
    /\ WorkerFrame

\* line 1836: state.files_scanned = files_searched
rg_scanned(w) ==
    /\ wk[w].pc = "rg_scanned"
    /\ files_scanned' = wk[w].files_searched[1]
    /\ wk' = [wk EXCEPT ![w].pc = "rg_final"]
    /\ UNCHANGED <<stop_event, result_q, log_q, matches_found>>
    /\ WorkerFrame

\* line 1840: state.stop_event.set()
rg_final(w) ==
    /\ wk[w].pc = "rg_final"
    /\ StopSet
    /\ wk' = [wk EXCEPT ![w] = Returned(wk[w])]
    /\ UNCHANGED <<result_q, log_q, files_scanned, matches_found>>
    /\ WorkerFrame

_worker_text_ripgrep(w) ==
    \/ rg_popen(w) \/ rg_fail_set(w) \/ rg_read(w) \/ rg_line_stop(w) \/ rg_line_pause(w)
    \/ rg_line_pause_stop(w) \/ rg_count(w) \/ rg_put(w) \/ rg_after(w)
    \/ rg_communicate(w) \/ rg_scanned(w) \/ rg_final(w)

(***************************************************************************)
(* The system.                                                             *)
(***************************************************************************)
MainThread ==
    \/ StartSearch \/ TogglePauseResume \/ StopSearch \/ ClearResults \/ ModeChange
    \/ PumpFire \/ PumpDrain \/ PumpDecide

Next ==
    \/ MainThread
    \/ \E w \in Workers : _worker_text(w)
    \/ \E w \in Workers : _worker_file(w)
    \/ \E w \in Workers : _worker_folder(w)
    \/ \E w \in Workers : _worker_text_ripgrep(w)
    \/ \E w \in Workers : rg_child(w)

\* one search of the full tree, with or without ripgrep installed
Init ==
    /\ InitTab
    /\ env = [fs |-> TREE_FULL, runs |-> OneRun, requests |-> MaxRequests,
             forms |-> "basic"]
    /\ rg_path \in {None, "rg"}

Spec == Init /\ [][Next]_vars

\* up to MaxRuns native Text searches of the small tree on the same tab
InitRestart ==
    /\ InitTab
    /\ env = [fs |-> TREE_SMALL, runs |-> MaxRuns, requests |-> MaxRestartRequests,
             forms |-> "basic"]
    /\ rg_path = None

NextRestart ==
    \/ StartSearch \/ TogglePauseResume \/ StopSearch \/ ClearResults
    \/ PumpFire \/ PumpDrain \/ PumpDecide
    \/ \E w \in Workers : _worker_text(w)

SpecRestart == InitRestart /\ [][NextRestart]_vars

(***************************************************************************)
(* One run of each scenario: a tree and the forms searched on it.          *)
(***************************************************************************)
\* the lines a .gitignore of the scenarios is made of
IgnoreLines == { <<"*", ".", "l">>, <<"!", "k", ".", "l">>, <<"g", "/">> }

\* the lines the parser of the ignore file is tried on: a blank line, a
\* comment, a bare "!" with and without a blank after it, a plain pattern,
\* a negated one, a directory-only one, and a last line without newline
\* that is indented, negated and directory-only
ParseLines ==
    { <<"\n">>, <<"#", "x", "\n">>, <<"!", "\n">>, <<"!", " ", "\n">>, <<"x", "\n">>,
      <<"!", "y", "\n">>, <<"z", "/", "\n">>, <<" ", "!", " ", "w", "/">> }

\* the sequences over S of length n, and of length up to n
RECURSIVE SeqsOfLen(_, _)
SeqsOfLen(S, n) ==
    IF n = 0 THEN { <<>> }
    ELSE { Append(q, x) : q \in SeqsOfLen(S, n - 1), x \in S }

SeqsUpTo(S, n) == UNION { SeqsOfLen(S, k) : k \in 0..n }

Scenario(fs, tag) ==
    [fs |-> fs, runs |-> OneRun, requests |-> MaxScanRequests, forms |-> tag]

ScanEnvs ==
    { Scenario(TREE_FULL, "malformed"), Scenario(TREE_FULL, "first_match"),
      Scenario(TREE_DEEP, "depth"), Scenario(TREE_PRUNE, "prune"),
      Scenario(TREE_FOLDERS, "folder_content"), Scenario(TREE_FULL, "file_content"),
      Scenario(TREE_DENIED, "denied"), Scenario(TREE_COUNT, "count"),
      Scenario(TREE_FULL, "content_off"), Scenario(TREE_WORDS, "literal") }
    \cup { Scenario([TREE_IGNORE EXCEPT !.gitignore = g], "ignore") :
               g \in SeqsUpTo(IgnoreLines, MaxIgnoreLines) }
    \cup { Scenario([TREE_SMALL EXCEPT !.gitignore = g], "parse") :
               g \in SeqsUpTo(ParseLines, MaxIgnoreLines) }
    \cup { Scenario([TREE_SMALL EXCEPT !.gitignore = g,
                                       !.denied = {PathJoin(BASE, N_GITIGNORE)}], "parse") :
               g \in SeqsOfLen(ParseLines, 1) }

\* whether rg is installed matters where "Use ripgrep" is checked
InitScan ==
    /\ InitTab
    /\ env \in ScanEnvs
    /\ rg_path \in IF \E f \in ScanForms(env.forms) : f.use_ripgrep THEN {None, "rg"}
                   ELSE {None}

(***************************************************************************)
(* One run under fair scheduling: every worker thread that can take a step *)
(* eventually takes one, and so does the rg child.  The main thread is     *)
(* driven by the user and by timers and is not forced to act.              *)
(***************************************************************************)
InitLive ==
    /\ InitTab
    /\ env = [fs |-> TREE_FULL, runs |-> OneRun, requests |-> MaxLiveRequests,
             forms |-> "basic"]
    /\ rg_path \in {None, "rg"}

Worker(w) ==
    \/ _worker_text(w) \/ _worker_file(w) \/ _worker_folder(w) \/ _worker_text_ripgrep(w)

NextLive ==
    \/ StartSearch
    \/ TogglePauseResume
    \/ StopSearch
    \/ (ModeChange /\ run = 0)
    \/ PumpFire
    \/ PumpDrain
    \/ PumpDecide
    \/ \E w \in Workers : Worker(w)
    \/ \E w \in Workers : rg_child(w)

SpecLive ==
    /\ InitLive
    /\ [][NextLive]_vars
    /\ \A w \in Workers : WF_vars(Worker(w)) /\ WF_vars(rg_child(w))

SpecScan == InitScan /\ [][NextLive]_vars

(***************************************************************************)
(* The pump under a backlog.  The timer of the pump fires every 120 ms at  *)
(* best, and a worker can put any number of records in between.  The       *)
(* specification starts where a native Text run on a large tree has put    *)
(* all its records and log lines since the tick that start_search_for_tab  *)
(* makes itself, and is about to set the stop event: /r holds a.t with n   *)
(* matching lines and m - 1 empty directories, so the backlog is n records *)
(* and m log lines; the user has pressed Pause in the meantime, or not.    *)
(***************************************************************************)
ResultBacklogs ==
    { 0, 1, max_results_per_tick - 1, max_results_per_tick, max_results_per_tick + 1,
      2 * max_results_per_tick + 1 }

LogBacklogs ==
    { 1, max_logs_per_tick - 1, max_logs_per_tick, max_logs_per_tick + 1,
      2 * max_logs_per_tick + 1 }

BigDirs(m) == <<BASE>> \o [k \in 1..(m - 1) |-> PathJoin(BASE, str(k))]

TREE_BIG(n, m) ==
    [dirs |-> [d \in Range(BigDirs(m)) |->
                  IF d = BASE THEN [dirs |-> [k \in 1..(m - 1) |-> str(k)], files |-> <<N_A>>]
                  ELSE [dirs |-> <<>>, files |-> <<>>]],
     files |-> (PathJoin(BASE, N_A) :>
                    [size |-> 3 * n, mtime |-> 60, binary |-> FALSE,
                     lines |-> [k \in 1..n |-> L_HI]]),
     mtimes |-> [d \in Range(BigDirs(m)) |-> 60],
     denied |-> {}, gitignore |-> <<>>]

\* the records and the log lines of the run, in the order of the puts
BigRecords(n) == [k \in 1..n |-> <<PathJoin(BASE, N_A), k, RStripNL(L_HI)>>]
BigLogs(m) == [k \in 1..m |-> [text |-> "Scanning: ", arg |-> BigDirs(m)[k]]]

\* the worker of that run after the walk has ended, before line 1714
AtFinal(n, m) ==
    [NoWorker EXCEPT !.pc = "t_final", !.req = RequestBase, !.root = BigDirs(m)[m],
                     !.hist = [visited |-> BigDirs(m), scanned |-> <<PathJoin(BASE, N_A)>>,
                               emitted |-> BigRecords(n), paused_at |-> 0]]

InitPump ==
    \E n \in ResultBacklogs, m \in LogBacklogs, paused \in BOOLEAN :
        /\ env = [fs |-> TREE_BIG(n, m), runs |-> OneRun, requests |-> MaxLiveRequests,
                  forms |-> "basic"]
        /\ rg_path = None
        /\ run = 1
        /\ mode = "Text"
        /\ wk = [w \in Workers |-> IF w = 1 /\ paused THEN PauseNoted(AtFinal(n, m))
                                 ELSE IF w = 1 THEN AtFinal(n, m) ELSE NoWorker]
        /\ stop_event = FALSE
        /\ pause_event = ~paused
        /\ ui = IF paused THEN 1 ELSE 0
        /\ result_q = BigRecords(n)
        /\ log_q = BigLogs(m) \o (IF paused THEN <<[text |-> "Paused.", arg |-> <<>>]>> ELSE <<>>)
        /\ files_scanned = 1
        /\ matches_found = n
        /\ result_tree = <<>>
        /\ log_text = <<>>
        /\ btn = [search |-> FALSE, pause |-> TRUE, stop |-> TRUE]
        /\ pump = [pc |-> "idle", drained |-> FALSE, pending |-> 1, delay |-> DELAY_IDLE]

NextPump ==
    \/ TogglePauseResume
    \/ StopSearch
    \/ PumpFire
    \/ PumpDrain
    \/ PumpDecide
    \/ \E w \in Workers : t_final(w)

\* a timer of the Tk main loop fires and its callback runs to the end; the
\* worker thread that can take its last step takes it
SpecPump ==
    /\ InitPump
    /\ [][NextPump]_vars
    /\ WF_vars(PumpFire) /\ WF_vars(PumpDrain) /\ WF_vars(PumpDecide)
    /\ \A w \in Workers : WF_vars(t_final(w))

(***************************************************************************)
(* Properties.                                                             *)
(***************************************************************************)
\* the thread of run w was started and has not returned
Live(w) == wk[w].pc \notin {"none", "done"}

\* the thread of run w takes this step
Steps(w) == PauseLifted(wk'[w]) # PauseLifted(wk[w])

\* the positions inside the pause loops
PauseWaits ==
    {"t_file_pause_stop", "t_line_pause_stop", "f_file_pause_stop", "f_line_pause_stop",
     "d_name_pause_stop", "s_entry_pause_stop", "s_line_pause_stop", "rg_line_pause_stop"}

\* the log lines queued or shown
LogLines == Range(log_q) \cup Range(log_text)

\* q is what is left of p after some elements were taken from its head
IsSuffix(q, p) == Len(q) <= Len(p) /\ q = SubSeq(p, Len(p) - Len(q) + 1, Len(p))

\* p is q before some elements were put at its tail
IsPrefix(p, q) == Len(p) <= Len(q) /\ p = SubSeq(q, 1, Len(p))

\* C1: for every mode and backend, a started run whose worker is not left
\* paused forever eventually sets the stop flag as its terminal signal: its
\* worker returns with the flag set, after a complete traversal, after an
\* invalid pattern, after a failure of the external tool, and after a stop
\* request.
C1_RunEndsWithStopSet ==
    ([]<>(pause_event \/ stop_event))
        => \A w \in Workers : (wk[w].pc = "entry") ~> (wk[w].pc = "done" /\ stop_event)

\* a run that found matches has ended by completing its traversal
C1_Witness ==
    /\ wk[1].pc = "done"
    /\ stop_event
    /\ ~wk[1].saw_stop
    /\ matches_found > 0
    /\ [text |-> "Stopping", arg |-> <<>>] \notin LogLines

\* the pump has a tick running or a timer pending
PumpRunning == pump.pc # "idle" \/ pump.pending > 0

\* C2: when the pump stops rescheduling itself and reports the run as
\* stopped, the result channel and the log channel of the run are both
\* empty, in every interleaving and for every sequence of pause, resume and
\* stop requests.
C2_PumpStopsWithEmptyChannels ==
    [][(PumpRunning /\ ~PumpRunning') => (result_q' = <<>> /\ log_q' = <<>>)]_vars

\* C3: no two runs share an ExecutionState: after a new run was started, a
\* step of a worker of an earlier run leaves the flag, the counters and the
\* channels of the tab alone.
C3_NoSharedExecutionState ==
    [][\A w \in Workers :
          (w < run /\ Steps(w))
              => UNCHANGED <<stop_event, result_q, log_q, files_scanned, matches_found>>]_vars

\* C4: when a new run is started while the worker of the previous run is
\* alive, the previous worker returns because it observed cancellation.
C4_OldWorkerObservesCancellation ==
    [][\A w \in Workers : (w < run /\ Live(w) /\ wk'[w].pc = "done") => wk'[w].saw_stop]_vars

\* C5: once a worker has observed the stop flag set, at a per-directory,
\* per-file or per-line check or inside a pause wait, it enqueues no further
\* record and changes no counter before it returns.
C5_NoWorkAfterObservedStop ==
    [][\A w \in Workers :
          (wk[w].saw_stop /\ Steps(w))
              => UNCHANGED <<result_q, files_scanned, matches_found>>]_vars

\* C6: a stop request issued while the worker is paused makes the worker
\* leave its pause wait and return, with the flag set and, if its run is
\* still the tab's run, the tab still paused (no resume).
C6_StopEndsPausedWorker ==
    \A w \in Workers :
        (~pause_event /\ stop_event /\ Live(w))
            ~> (wk[w].pc = "done" /\ stop_event /\ (run = w => ~pause_event))

\* the worker is inside a pause loop, the run paused, and stop was requested
C6_Witness == ~pause_event /\ stop_event /\ wk[1].pc \in PauseWaits

\* C7: while a run is paused and not cancelled, a native worker does not
\* begin another directory: it does not take the step that logs "Scanning:".
C7_PausedWorkerStartsNoDirectory ==
    [][\A w \in Workers :
          (~pause_event /\ ~stop_event /\ wk[w].pc \in {"t_dir_log", "f_dir_log", "d_dir_log"})
              => ~Steps(w)]_vars

\* C8: the stop flag of a run is one-way: no step taken during the run
\* (pause, resume, stop, clear results, pump tick, worker step) changes a
\* set flag to unset, and setting it again leaves it set.
C8_StopFlagOneWay == [][(stop_event /\ run' = run) => stop_event']_vars

\* stop was requested, the worker observed it and set the flag again when it
\* returned, and results were cleared in the same run
C8_Witness ==
    /\ stop_event
    /\ wk[1].pc = "done"
    /\ wk[1].saw_stop
    /\ [text |-> "Stopping", arg |-> <<>>] \in LogLines
    /\ [text |-> "Cleared results.", arg |-> <<>>] \in LogLines

\* C9: while the worker of a run is alive, no step of the main thread (pump
\* tick, pause, resume, stop, clear results, mode switch) changes the
\* items-scanned or the matches-found counter.
C9_CountersWrittenOnlyByWorker ==
    [][((\E w \in Workers : Live(w)) /\ \A w \in Workers : ~Steps(w))
          => UNCHANGED <<files_scanned, matches_found>>]_vars

\* C10: the channels of a run are written only by the worker: while the
\* worker is alive no step of the main thread (pause, resume, stop, clear
\* results) puts anything on the result or the log channel.
C10_ChannelsWrittenOnlyByWorker ==
    [][((\E w \in Workers : Live(w)) /\ \A w \in Workers : ~Steps(w))
          => (Len(result_q') <= Len(result_q) /\ Len(log_q') <= Len(log_q))]_vars

\* the log lines the button and menu handlers put on the log channel
ControlLines == {"Paused.", "Resumed.", "Stopping", "Cleared results."}

\* C10, amended: during a run the main thread only takes from the result
\* channel; from the log channel it takes, or it puts one line of pause,
\* resume, stop or clear results; a worker step only puts at the tail of
\* either channel.
C10_WorkerPutsMainThreadTakes ==
    [][/\ ((\A w \in Workers : ~Steps(w)) /\ run' = run)
           => /\ IsSuffix(result_q', result_q)
              /\ \/ IsSuffix(log_q', log_q)
                 \/ \E t \in ControlLines : log_q' = Append(log_q, [text |-> t, arg |-> <<>>])
       /\ ((\E w \in Workers : Steps(w)) /\ run' = run)
           => (IsPrefix(result_q, result_q') /\ IsPrefix(log_q, log_q'))]_vars

\* the worker is alive, has put a record on the result channel, and the
\* line of a pause request is on the log channel
C10_Witness ==
    /\ Live(1)
    /\ result_q # <<>>
    /\ [text |-> "Paused.", arg |-> <<>>] \in Range(log_q)

(***************************************************************************)
(* Errors of a run.                                                        *)
(***************************************************************************)
\* a pattern spec of the run is a regular expression that does not parse:
\* the primary pattern, or the content pattern when the content filter of
\* File or Folder mode is on
Malformed(req) ==
    \/ req.pat.regex /\ ReError(req.pat.text)
    \/ /\ req.mode \in {"File", "Folder"}
       /\ req.content_filter_on
       /\ req.cpat.regex /\ ReError(req.cpat.text)

\* the log lines that report a pattern that does not parse: the four of
\* the native workers, and what rg writes to stderr
InvalidPatternLines ==
    { [text |-> t, arg |-> <<>>] :
          t \in {"Invalid regex", "Invalid filename regex", "Invalid folder regex",
                 "Invalid content regex", "regex parse error"} }

\* the line of an rg process that could not be started
FailedToStart == [text |-> "Failed to start rg", arg |-> <<>>]

FallingBack ==
    [text |-> "ripgrep (rg) not found; falling back to Python scanner.", arg |-> <<>>]

\* C12: when rg is requested but is missing or its process fails to start,
\* the run is not fatal: a run with a well-formed pattern that ends without
\* having observed a stop request has logged the fallback and has scanned
\* the tree with the native worker.
C12_BackendFailureFallsBack ==
    \A w \in Workers :
        ( /\ wk[w].pc = "done" /\ run = w
          /\ wk[w].req.use_ripgrep
          /\ ~Malformed(wk[w].req)
          /\ ~wk[w].saw_stop
          /\ (rg_path = None \/ FailedToStart \in LogLines) )
            => (FallingBack \in LogLines /\ wk[w].hist.scanned # <<>>)

\* C13: a file that cannot be opened is skipped with an error line on the
\* log channel of the run, and the run goes on: when a worker that was not
\* stopped has returned, every such file it came to has a log line naming
\* it, and the files after it were scanned too.
C13_UnreadableFileIsLogged ==
    \A w \in Workers :
        (wk[w].pc = "done" /\ run = w /\ ~wk[w].saw_stop /\ ~Malformed(wk[w].req))
            => \A f \in env.fs.denied \cap Range(wk[w].hist.scanned) :
                   /\ \E ln \in LogLines : ln.arg = f
                   /\ \A g \in DOMAIN FSFiles \ {f} : g \in Range(wk[w].hist.scanned)

(***************************************************************************)
(* What a run emits.                                                       *)
(***************************************************************************)
\* the numbers of the lines of the file path the predicate of p matches
MatchingLines(p, path) ==
    { k \in 1..Len(FSFiles[path].lines) : Matches(p, FSFiles[path].lines[k]) }

\* C14: with "First match per file" a Text run emits at most one record per
\* file path, native or through rg, whatever pause and stop requests it
\* meets: the record of the first matching line of the file; and the native
\* worker leaves the file with the step that puts the record.
C14_FirstMatchOnly ==
    /\ [](\A w \in Workers :
             (wk[w].req.mode = "Text" /\ wk[w].req.first_match_per_file)
                 => LET e == wk[w].hist.emitted
                    IN  /\ \A i, j \in DOMAIN e : e[i][1] = e[j][1] => i = j
                        /\ \A i \in DOMAIN e :
                               LET hits == MatchingLines(wk[w].req.pat, e[i][1])
                               IN  /\ e[i][2] \in hits
                                   /\ \A k \in hits : e[i][2] <= k
                                   /\ e[i][3] = RStripNL(FSFiles[e[i][1]].lines[e[i][2]]))
    /\ [][\A w \in Workers :
             (wk[w].req.first_match_per_file /\ wk[w].pc = "t_line_put" /\ Steps(w))
                 => (wk'[w].pc \in {"t_file_stop", "t_dir_stop", "t_final"}
                     /\ wk'[w].lines = <<>>)]_vars

\* a native run with "First match per file" has ended without a stop: it
\* emitted two records, one for a.t, which has two matching lines, and one
\* for c.t
C14_Witness ==
    /\ wk[1].pc = "done" /\ ~wk[1].saw_stop
    /\ wk[1].req.first_match_per_file /\ ~wk[1].req.use_ripgrep
    /\ Cardinality(MatchingLines(wk[1].req.pat, PathJoin(BASE, N_A))) = 2
    /\ Len(wk[1].hist.emitted) = 2
    /\ wk[1].hist.emitted[1] = <<PathJoin(BASE, N_A), 1, <<"h", "i">> >>

\* how many levels the directory or file path lies below root
LevelsBelow(path, root) == IF path = root THEN 0 ELSE Count(RelPath(path, root), "/") + 1

\* the files of the directory v that a Text or File run with the request
\* req counts when it is not stopped
FilesCounted(req, rules, v) ==
    { PathJoin(v, FSDirs[v].files[k]) : k \in 1..Len(FSDirs[v].files) }
    \cap { f \in DOMAIN FSFiles :
               /\ ~(req.skip_hidden /\ is_hidden_path(f))
               /\ ~gitignore_ignored(RelPath(f, req.directory), FALSE, rules)
               /\ GlobsPass(BaseName(f), req)
               /\ ~OverCap(getsize(f), req)
               /\ (req.mode = "Text" /\ req.filetype # <<"A", "l", "l">>)
                      => EndsWith(BaseName(f), req.filetype) }

\* C15: with a depth limit d the walk yields no directory more than d
\* levels below the root (with d = 0 the root only), and the files of every
\* directory it yields are still yielded: a Text or File run that was not
\* stopped has counted them all.
C15_DepthLimit ==
    \A w \in Workers :
        wk[w].req.depth_limit # Missing
            => LET req == wk[w].req
                   d == req.depth_limit[1]
                   visited == wk[w].hist.visited
               IN  /\ \A i \in DOMAIN visited : LevelsBelow(visited[i], req.directory) <= d
                   /\ d = 0 => Len(visited) <= 1
                   /\ (wk[w].pc = "done" /\ ~wk[w].saw_stop /\ visited # <<>>
                          /\ req.mode \in {"Text", "File"})
                         => \A i \in DOMAIN visited :
                                FilesCounted(req, RulesFor(req), visited[i])
                                    \subseteq Range(wk[w].hist.scanned)

\* a run with the depth limit 1 on the tree of three levels has ended
\* without a stop: it visited /r and /r/s and counted a.t and c.t
C15_Witness ==
    /\ wk[1].pc = "done" /\ ~wk[1].saw_stop
    /\ wk[1].req.depth_limit = Some(1)
    /\ PathJoin(PathJoin(BASE, N_S), N_U) \in DOMAIN FSDirs
    /\ wk[1].hist.visited = <<BASE, PathJoin(BASE, N_S)>>
    /\ wk[1].hist.scanned = <<PathJoin(BASE, N_A), PathJoin(PathJoin(BASE, N_S), N_C)>>

\* the directory dir below the root of req is removed from the walk: it is
\* hidden and hidden entries are skipped, the ignore rules ignore it, or an
\* exclude glob matches its name
Pruned(req, rules, dir) ==
    \/ req.skip_hidden /\ StartsWith(BaseName(dir), <<".">>)
    \/ gitignore_ignored(RelPath(dir, req.directory), TRUE, rules)
    \/ \E i \in 1..Len(req.exclude_globs) : fnmatchcase(BaseName(dir), req.exclude_globs[i])

\* the directories between the root and path: the proper ancestors of path
\* strictly below root
AncestorsBelow(path, root) ==
    { SubSeq(path, 1, k - 1) : k \in { i \in (Len(root) + 2)..Len(path) : path[i] = "/" } }

\* path lies in a subtree that was removed from the walk
InPrunedSubtree(req, rules, path) ==
    \E a \in AncestorsBelow(path, req.directory)
                \cup (IF path \in DOMAIN FSDirs /\ path # req.directory THEN {path} ELSE {}) :
        Pruned(req, rules, a)

\* C16: pruned subdirectories are never descended into: no directory the
\* walk yields to a worker, no path the worker counts and no path of a
\* record it emits lies in the subtree of a directory that is hidden (with
\* hidden entries skipped), ignored by the ignore rules or matched by an
\* exclude glob.
C16_PrunedSubtreesNotEntered ==
    \A w \in Workers :
        LET req == wk[w].req
            rules == RulesFor(req)
            h == wk[w].hist
        IN  h.visited # <<>>
                => /\ \A i \in DOMAIN h.visited : ~InPrunedSubtree(req, rules, h.visited[i])
                   /\ \A i \in DOMAIN h.scanned : ~InPrunedSubtree(req, rules, h.scanned[i])
                   /\ \A i \in DOMAIN h.emitted : ~InPrunedSubtree(req, rules, h.emitted[i][1])

\* a Text run that skips hidden entries, excludes x and respects the
\* .gitignore line "g" has ended without a stop on the tree that holds .h,
\* x and g/k: it visited /r only and counted a.t only
C16_Witness ==
    /\ wk[1].pc = "done" /\ ~wk[1].saw_stop
    /\ wk[1].req.mode = "Text"
    /\ wk[1].req.skip_hidden /\ wk[1].req.exclude_globs = <<N_X>> /\ wk[1].req.respect_gitignore
    /\ {PathJoin(BASE, N_H), PathJoin(BASE, N_X), PathJoin(PathJoin(BASE, N_G), N_K)}
           \subseteq DOMAIN FSDirs
    /\ wk[1].hist.visited = <<BASE>>
    /\ wk[1].hist.scanned = <<PathJoin(BASE, N_A)>>
    /\ Len(wk[1].hist.emitted) = 1

(***************************************************************************)
(* Ignore rules.                                                           *)
(***************************************************************************)
\* the rule r applies to the candidate and matches it: a directory-only
\* rule applies to directories only; a pattern with a separator is matched
\* against the relative path, any other against the last component
RuleMatches(r, rel, is_dir) ==
    /\ r[3] => is_dir
    /\ IF \E i \in 1..Len(r[1]) : r[1][i] = "/" THEN fnmatchcase(rel, r[1])
       ELSE fnmatchcase(BaseName(rel), r[1])

\* what the last rule that matches says; not ignored if none matches
LastRuleSays(rel, is_dir, rules) ==
    LET hits == { i \in 1..Len(rules) : RuleMatches(rules[i], rel, is_dir) }
    IN  hits # {} /\ ~rules[CHOOSE i \in hits : \A j \in hits : j <= i][2]

\* the relative paths of the entries of the tree
TreeRelPaths ==
    { RelPath(x, BASE) : x \in (DOMAIN FSFiles \cup DOMAIN FSDirs) \ {BASE} }

RulesStarThenKeep == ParseRules(<< <<"*", ".", "l">>, <<"!", "k", ".", "l">> >>)
RulesKeepThenStar == ParseRules(<< <<"!", "k", ".", "l">>, <<"*", ".", "l">> >>)

\* C17: the evaluation of the ignore rules is last-match-wins: for the
\* rules of the .gitignore of the tree and every entry of the tree, taken as
\* a directory and as a file, gitignore_ignored returns what the last rule
\* that applies to and matches the entry says, and not ignored if none does
\* or there is no rule; with the rules [*.l, !k.l] a.l is ignored and k.l
\* is not, and with the rules reversed k.l is ignored.
C17_LastMatchWins ==
    /\ \A rel \in TreeRelPaths, is_dir \in BOOLEAN :
           LET rules == load_gitignore_rules(BASE)
           IN  gitignore_ignored(rel, is_dir, rules) = LastRuleSays(rel, is_dir, rules)
    /\ \A rel \in TreeRelPaths, is_dir \in BOOLEAN : ~gitignore_ignored(rel, is_dir, <<>>)
    /\ gitignore_ignored(N_AL, FALSE, RulesStarThenKeep)
    /\ ~gitignore_ignored(N_KL, FALSE, RulesStarThenKeep)
    /\ gitignore_ignored(N_KL, FALSE, RulesKeepThenStar)

\* a run that respects the .gitignore with the lines "*.l" and "!k.l" has
\* ended without a stop: a.l was dropped from the walk, k.l and g/k.l were
\* counted
C17_Witness ==
    /\ env.fs.gitignore = << <<"*", ".", "l">>, <<"!", "k", ".", "l">> >>
    /\ wk[1].pc = "done" /\ ~wk[1].saw_stop
    /\ wk[1].req.respect_gitignore
    /\ PathJoin(BASE, N_AL) \in DOMAIN FSFiles
    /\ wk[1].hist.scanned = <<PathJoin(BASE, N_KL), PathJoin(PathJoin(BASE, N_G), N_KL)>>

\* the lines of the .gitignore of the tree that are directory-only rules
\* without negation, written "X/"
DirOnlyLines ==
    { i \in 1..Len(env.fs.gitignore) :
        LET line == Strip(env.fs.gitignore[i])
        IN  /\ Len(line) > 1
            /\ line[Len(line)] = "/"
            /\ line[1] \notin {"!", "#"} }

\* C18: a directory-only rule "X/" ignores the directory X itself and
\* never a non-directory named X: evaluated alone, the rule parsed from the
\* line yields ignored for X as a directory and not ignored for X as a
\* file, and a walk that respects a .gitignore whose only line is "X/"
\* never enters X.
C18_DirOnlyRuleIgnoresDirectory ==
    /\ \A i \in DirOnlyLines :
           LET X == RStripSlash(Strip(env.fs.gitignore[i]))
               rules == ParseRules(<< env.fs.gitignore[i] >>)
           IN  /\ gitignore_ignored(X, TRUE, rules)
               /\ ~gitignore_ignored(X, FALSE, rules)
    /\ \A w \in DOMAIN wk :
           /\ env.fs.gitignore = << <<"g", "/">> >>
           /\ wk[w].pc # "idle"
           /\ wk[w].req.respect_gitignore
           => PathJoin(BASE, N_G) \notin Range(wk[w].hist.visited)

(***************************************************************************)
(* Content filter in Folder mode.                                          *)
(***************************************************************************)
\* the directory holds, directly, a regular file that passes the filters of
\* the request, is within the size cap, is not taken for binary and has a
\* line that matches the content pattern
YieldsContentMatch(req, folder) ==
    \E k \in 1..Len(FSDirs[folder].files) :
        LET name == FSDirs[folder].files[k]
            path == PathJoin(folder, name)
        IN  /\ ~(req.skip_hidden /\ is_hidden_path(path))
            /\ GlobsPass(name, req)
            /\ ~gitignore_ignored(RelPath(path, req.directory), FALSE, RulesFor(req))
            /\ ~OverCap(FSFiles[path].size, req)
            /\ ~FSFiles[path].binary /\ path \notin env.fs.denied
            /\ MatchingLines(req.cpat, path) # {}

\* C19: a Folder run with the content filter never emits a record for a
\* directory that holds no file yielding a content match (its files are
\* binary, above the size cap, or have no matching line), even if the name
\* of the directory matches; and a content scan that sees the stop request
\* never lets the directory pass.
C19_FolderNeedsContentMatch ==
    /\ [](\A w \in Workers :
             (wk[w].req.mode = "Folder" /\ wk[w].req.content_filter_on)
                 => \A i \in DOMAIN wk[w].hist.emitted :
                        YieldsContentMatch(wk[w].req, wk[w].hist.emitted[i][1]))
    /\ [][\A w \in Workers :
             (/\ wk[w].req.content_filter_on
              /\ wk[w].pc \in {"s_entry_stop", "s_line_stop"}
              /\ StopIsSet
              /\ Steps(w))
                 => (wk'[w].pc # "d_passed" /\ wk'[w].hist.emitted = wk[w].hist.emitted)]_vars

\* a Folder run with the content filter and a cap of 1 MB has ended without
\* a stop: the four directories sb, sg, sc and sn were counted, their names
\* all match, and only sc, which holds a small text file with a matching
\* line, was emitted
C19_Witness ==
    /\ wk[1].req.mode = "Folder" /\ wk[1].req.content_filter_on
    /\ wk[1].pc = "done" /\ ~wk[1].saw_stop
    /\ wk[1].hist.scanned = << PathJoin(BASE, N_SB), PathJoin(BASE, N_SG),
                               PathJoin(BASE, N_SC), PathJoin(BASE, N_SN) >>
    /\ \A i \in DOMAIN wk[1].hist.scanned :
           Matches(wk[1].req.pat, BaseName(wk[1].hist.scanned[i]))
    /\ Len(wk[1].hist.emitted) = 1
    /\ wk[1].hist.emitted[1][1] = PathJoin(BASE, N_SC)

(***************************************************************************)
(* Content filter in File mode.                                            *)
(***************************************************************************)
\* the name of the file matches the name pattern, and the content filter is
\* off or the file is not taken for binary and has a line that matches the
\* content pattern
ShouldEmit(req, path) ==
    /\ Matches(req.pat, BaseName(path))
    /\ \/ ~req.content_filter_on
       \/ /\ ~FSFiles[path].binary /\ path \notin env.fs.denied
          /\ MatchingLines(req.cpat, path) # {}

EmittedPaths(l) == { l.hist.emitted[i][1] : i \in DOMAIN l.hist.emitted }

\* C20: in File mode the files that passed the globs and the size cap are
\* the counted ones.  Every record is for a counted file whose name matches
\* and, with the content filter, that is not binary and has a matching
\* line, and no file has two records; a run that ends without having seen
\* a stop has emitted every such file; and a content scan that is cut short
\* by the stop request leaves the file without a record and goes on to the
\* next file or to the end.
C20_FileEmittedExactlyWhen ==
    /\ [](\A w \in Workers :
             wk[w].req.mode = "File"
                 => LET l == wk[w]
                        e == l.hist.emitted
                    IN  /\ \A i \in DOMAIN e :
                               /\ e[i][1] \in Range(l.hist.scanned)
                               /\ ShouldEmit(l.req, e[i][1])
                        /\ \A i, j \in DOMAIN e : e[i][1] = e[j][1] => i = j
                        /\ (l.pc = "done" /\ ~l.saw_stop)
                               => \A path \in Range(l.hist.scanned) :
                                      ShouldEmit(l.req, path) => path \in EmittedPaths(l))
    /\ [][\A w \in Workers :
             (/\ wk[w].req.mode = "File"
              /\ wk[w].pc = "f_line_stop"
              /\ StopIsSet
              /\ Steps(w))
                 => (/\ wk'[w].pc \in {"f_file_stop", "f_dir_stop", "f_final"}
                     /\ PathJoin(wk[w].root, wk[w].fname) \notin EmittedPaths(wk'[w])
                     /\ wk'[w].hist.emitted = wk[w].hist.emitted)]_vars

\* a File run with the name pattern "." and the content pattern "ohi" has
\* ended without a stop: a.t, the binary b.b and s/c.t were counted, all
\* three names match, and only a.t, whose second line matches, was emitted
C20_Witness ==
    /\ wk[1].req.mode = "File" /\ wk[1].req.content_filter_on
    /\ wk[1].req.pat = P_DOT /\ wk[1].req.cpat = P_OHI
    /\ wk[1].pc = "done" /\ ~wk[1].saw_stop
    /\ wk[1].hist.scanned = << PathJoin(BASE, N_A), PathJoin(BASE, N_B),
                               PathJoin(PathJoin(BASE, N_S), N_C) >>
    /\ FSFiles[PathJoin(BASE, N_B)].binary
    /\ EmittedPaths(wk[1]) = { PathJoin(BASE, N_A) }

(***************************************************************************)
(* The items-scanned counter of the native Text worker.                    *)
(***************************************************************************)
\* the file passes the file-type filter, the include and exclude globs and
\* the size cap of the request
PassesTextFilters(req, path) ==
    /\ req.filetype = <<"A", "l", "l">> \/ EndsWith(BaseName(path), req.filetype)
    /\ req.include_globs = <<>>
          \/ \E i \in DOMAIN req.include_globs : fnmatchcase(BaseName(path), req.include_globs[i])
    /\ \A i \in DOMAIN req.exclude_globs : ~fnmatchcase(BaseName(path), req.exclude_globs[i])
    /\ ~(req.max_mb > 0 /\ FSFiles[path].size > req.max_mb * BYTES_PER_MB)

\* the file is left in the walk: it lies in no pruned subtree and neither
\* the hidden filter nor the ignore rules remove it
LeftByWalk(req, path) ==
    /\ ~InPrunedSubtree(req, RulesFor(req), path)
    /\ ~(req.skip_hidden /\ is_hidden_path(path))
    /\ ~gitignore_ignored(RelPath(path, req.directory), FALSE, RulesFor(req))

NativeText(l) == l.req.mode = "Text" /\ ~(l.req.use_ripgrep /\ rg_path # None)

\* C21: the native Text worker adds one to files_scanned with the step that
\* counts a file, and a file is counted exactly when the walk leaves it and
\* it passes the file-type filter, the globs and the size cap, binary or
\* not: every other step of the worker leaves the counter alone, no file is
\* counted twice, only such files are counted, and a run that ends without
\* having seen a stop has counted them all; a binary file has no record.
C21_CountedOncePerFilteredFile ==
    /\ [][\A w \in Workers :
             (NativeText(wk[w]) /\ Live(w) /\ Steps(w))
                 => IF /\ wk[w].pc = "t_file_body"
                       /\ PassesTextFilters(wk[w].req, PathJoin(wk[w].root, wk[w].fname))
                    THEN /\ files_scanned' = files_scanned + 1
                         /\ wk'[w].hist.scanned =
                                Append(wk[w].hist.scanned, PathJoin(wk[w].root, wk[w].fname))
                    ELSE /\ files_scanned' = files_scanned
                         /\ wk'[w].hist.scanned = wk[w].hist.scanned]_vars
    /\ [](\A w \in Workers :
             NativeText(wk[w])
                 => LET l == wk[w]
                        c == l.hist.scanned
                    IN  /\ \A i, j \in DOMAIN c : c[i] = c[j] => i = j
                        /\ \A i \in DOMAIN c :
                               LeftByWalk(l.req, c[i]) /\ PassesTextFilters(l.req, c[i])
                        /\ \A i \in DOMAIN l.hist.emitted :
                               ~FSFiles[l.hist.emitted[i][1]].binary
                        /\ (l.pc = "done" /\ ~l.saw_stop /\ l.hist.visited # <<>>)
                               => \A path \in DOMAIN FSFiles :
                                      (/\ \/ l.req.depth_limit = Missing
                                          \/ LevelsBelow(path, l.req.directory) - 1
                                                 <= l.req.depth_limit[1]
                                       /\ LeftByWalk(l.req, path)
                                       /\ PassesTextFilters(l.req, path))
                                          => path \in Range(c))

\* a native Text run without filters has ended without a stop on the tree
\* with a text file, a binary file, a large file, a hidden file and a
\* file named k.l: it counted a.t, b.b, g.t and k.l, the counter is 4, and
\* there is no record for the binary b.b
C21_Witness ==
    /\ env.forms = "count" /\ wk[1].req = RequestBase
    /\ wk[1].pc = "done" /\ ~wk[1].saw_stop
    /\ wk[1].hist.scanned = << PathJoin(BASE, N_A), PathJoin(BASE, N_B),
                               PathJoin(BASE, N_GT), PathJoin(BASE, N_KL) >>
    /\ files_scanned = 4
    /\ FSFiles[PathJoin(BASE, N_B)].binary
    /\ \A i \in DOMAIN wk[1].hist.emitted : wk[1].hist.emitted[i][1] # PathJoin(BASE, N_B)

\* the same tree with the file type ".t", a cap of 1 MB and the .gitignore:
\* only a.t was counted
C21_WitnessFiltered ==
    /\ env.forms = "count" /\ wk[1].req.max_mb = 1
    /\ wk[1].pc = "done" /\ ~wk[1].saw_stop
    /\ wk[1].hist.scanned = << PathJoin(BASE, N_A) >>
    /\ files_scanned = 1

(***************************************************************************)
(* The pump.                                                               *)
(***************************************************************************)
\* the pump runs its drain in this step
Drains == pump.pc = "drain" /\ pump'.pc = "decide"

\* C22: a tick of the pump removes at most max_results_per_tick (800)
\* records from the result queue and at most max_logs_per_tick (300) lines
\* from the log queue, however many they hold, and the widgets grow by what
\* was removed.
C22_DrainIsBounded ==
    [][Drains =>
          /\ Len(result_q) - Len(result_q') <= max_results_per_tick
          /\ Len(log_q) - Len(log_q') <= max_logs_per_tick
          /\ Len(result_q') <= Len(result_q) /\ Len(log_q') <= Len(log_q)
          /\ Len(result_tree') - Len(result_tree) = Len(result_q) - Len(result_q')
          /\ Len(log_text') - Len(log_text) = Len(log_q) - Len(log_q')]_vars

\* the first tick on a backlog of 1601 records and more than 600 log lines
\* has moved 800 records and 300 lines and left the rest queued
C22_Witness ==
    /\ pump.pc = "decide"
    /\ Len(result_tree) = max_results_per_tick
    /\ Len(result_q) = max_results_per_tick + 1
    /\ Len(log_text) = max_logs_per_tick
    /\ Len(log_q) > max_logs_per_tick

\* C23: records and log lines reach the widgets in the order of the puts.
\* In the first run what the result widget holds followed by what the
\* result queue holds is what the worker has put, in that order, so what
\* was delivered is a prefix of it and nothing is lost or doubled; no step
\* of a run reorders or drops what was delivered or queued, of records and
\* of log lines, and a tick moves the head of each queue to the tail of
\* its widget; and the records of a Text run for one file carry strictly
\* increasing line numbers from 1, each the number of the line it shows.
C23_ArrivalOrder ==
    /\ [](run = 1 =>
             /\ result_tree \o result_q = wk[1].hist.emitted
             /\ IsPrefix(result_tree, wk[1].hist.emitted))
    /\ [][run' = run =>
             /\ IsPrefix(result_tree, result_tree')
             /\ IsPrefix(log_text, log_text')
             /\ IsPrefix(result_tree \o result_q, result_tree' \o result_q')
             /\ IsPrefix(log_text \o log_q, log_text' \o log_q')
             /\ Drains => /\ result_tree' \o result_q' = result_tree \o result_q
                          /\ log_text' \o log_q' = log_text \o log_q]_vars
    /\ [](\A w \in Workers :
             wk[w].req.mode = "Text"
                 => LET e == wk[w].hist.emitted
                    IN  \A i, j \in DOMAIN e :
                            /\ e[i][2] >= 1
                            /\ e[i][3] = RStripNL(FSFiles[e[i][1]].lines[e[i][2]])
                            /\ (i < j /\ e[i][1] = e[j][1]) => e[i][2] < e[j][2])

\* the two records of a.t, lines 1 and 2, are in the result widget, put
\* there by two ticks or by one; the record of s/c.t is still queued, and
\* log lines have been delivered
C23_Witness ==
    /\ run = 1 /\ wk[1].req.mode = "Text"
    /\ Len(result_tree) = 2 /\ Len(result_q) = 1
    /\ result_tree[1][1] = PathJoin(BASE, N_A) /\ result_tree[1][2] = 1
    /\ result_tree[2][1] = PathJoin(BASE, N_A) /\ result_tree[2][2] = 2
    /\ result_q[1][1] = PathJoin(PathJoin(BASE, N_S), N_C)
    /\ log_text # <<>>

(***************************************************************************)
(* Cancellation of a run through rg.                                       *)
(***************************************************************************)
\* the positions of the adapter while it reads the output of the child
RgReading ==
    {"rg_read", "rg_line_stop", "rg_line_pause", "rg_line_pause_stop", "rg_count", "rg_put"}

C24_WitnessTerminate ==
    /\ StopIsSet
    /\ wk[1].pc = "rg_after" /\ wk[1].saw_stop
    /\ wk[1].proc.alive

(***************************************************************************)
(* The content pattern without the content filter.                         *)
(***************************************************************************)
\* the positions where a worker reads lines for the content pattern
ContentScanning ==
    {"f_line_stop", "f_line_pause", "f_line_pause_stop",
     "s_line_stop", "s_line_pause", "s_line_pause_stop"}

\* the counted entries whose name matches the name pattern, in the order
\* they were counted
NameHits(l) == SelectSeq(l.hist.scanned, LAMBDA path : Matches(l.req.pat, BaseName(path)))

\* the files a Folder run sees in the directory: those that pass the hidden
\* filter, the globs, the ignore rules and the size cap
FilesSeen(req, folder) ==
    Cardinality({ k \in 1..Len(FSDirs[folder].files) :
                    LET path == PathJoin(folder, FSDirs[folder].files[k])
                    IN  /\ ~(req.skip_hidden /\ is_hidden_path(path))
                        /\ GlobsPass(FSDirs[folder].files[k], req)
                        /\ ~gitignore_ignored(RelPath(path, req.directory), FALSE, RulesFor(req))
                        /\ ~OverCap(FSFiles[path].size, req) })

\* the record of a counted entry whose name matches, written without the
\* content pattern of the request
RecordWithoutFilter(l, path, rec) ==
    IF l.req.mode = "File"
    THEN rec = <<path, fmt_size(FSFiles[path].size), fmt_time(FSFiles[path].mtime), "-">>
    ELSE /\ Len(rec) = 4
         /\ rec[1] = path /\ rec[2] = fmt_time(env.fs.mtimes[path]) /\ rec[3] = "-"
         /\ \E n \in 0..FilesSeen(l.req, path) :
                /\ rec[4] = str(n)
                /\ ~l.saw_stop => n = FilesSeen(l.req, path)

\* the name-matching entry counted last is still on its way to the queue
HitInProgress(l) ==
    l.pc \in {"f_passed", "f_put", "d_passed", "d_put",
              "s_entry_stop", "s_entry_pause", "s_entry_pause_stop"}

\* C25: in File and Folder mode without the content filter the content
\* pattern is never consulted.  Whatever it is, a regular expression that
\* does not parse included, the run reports no invalid content pattern and
\* never reads a line for it; its records are, in order, those of the
\* counted entries whose name matches, marked as unfiltered, each determined
\* by the entry and the rest of the request; the counters follow the
\* counted entries and the records; and the worker ends with the stop event
\* set after a walk that started.
C25_ContentPatternUnusedWhenOff ==
    \A w \in Workers :
        (wk[w].req.mode \in {"File", "Folder"} /\ ~wk[w].req.content_filter_on
            /\ ~CompileFails(wk[w].req.pat))
            => LET l == wk[w]
                   e == l.hist.emitted
                   hits == NameHits(l)
               IN  /\ l.pc \notin ContentScanning \cup {"f_invalid_set", "d_invalid_set"}
                   /\ Len(e) = IF HitInProgress(l) THEN Len(hits) - 1 ELSE Len(hits)
                   /\ \A i \in DOMAIN e : RecordWithoutFilter(l, hits[i], e[i])
                   /\ (run = 1 /\ w = 1)
                         => /\ [text |-> "Invalid content regex", arg |-> <<>>] \notin LogLines
                            /\ l.pc # "none" => files_scanned = Len(l.hist.scanned)
                            /\ l.pc # "none" =>
                                   matches_found = IF l.pc \in {"f_put", "d_put"} THEN Len(e) + 1
                                                   ELSE Len(e)
                            /\ l.pc = "done" => (StopIsSet /\ l.hist.visited # <<>>)

\* a File run without the content filter whose content pattern does not
\* parse has ended without a stop and emitted a.t and s/c.t, the files
\* whose name matches
C25_Witness ==
    /\ wk[1].req.mode = "File" /\ ~wk[1].req.content_filter_on
    /\ wk[1].req.cpat.regex /\ ReError(wk[1].req.cpat.text)
    /\ wk[1].pc = "done" /\ ~wk[1].saw_stop
    /\ Len(wk[1].hist.emitted) = 2
    /\ wk[1].hist.emitted[1][1] = PathJoin(BASE, N_A)
    /\ wk[1].hist.emitted[2][1] = PathJoin(PathJoin(BASE, N_S), N_C)

\* the same for a Folder run: the directory s was emitted with its one file
C25_WitnessFolder ==
    /\ wk[1].req.mode = "Folder" /\ ~wk[1].req.content_filter_on
    /\ wk[1].req.cpat.regex /\ ReError(wk[1].req.cpat.text)
    /\ wk[1].pc = "done" /\ ~wk[1].saw_stop
    /\ wk[1].hist.emitted = << <<PathJoin(BASE, N_S), fmt_time(120), "-", str(1)>> >>

(***************************************************************************)
(* Literal patterns.                                                       *)
(***************************************************************************)
\* both sides case-folded unless the case matters
Folded(p, s) == IF p.case THEN s ELSE [i \in 1..Len(s) |-> LowerChar(s[i])]

\* there is a word boundary before position k of s (k = Len(s) + 1: at
\* the end): a word character on exactly one side
BoundaryBefore(s, k) ==
    LET left == IF k = 1 THEN FALSE ELSE IsWordChar(s[k - 1])
        right == IF k = Len(s) + 1 THEN FALSE ELSE IsWordChar(s[k])
    IN  (left /\ ~right) \/ (right /\ ~left)

\* the positions where the pattern occurs in the text
Occurrences(p, text) ==
    { i \in 1..Len(text) :
        /\ i + Len(p.text) - 1 <= Len(text)
        /\ \A j \in 1..Len(p.text) : Folded(p, text)[i + j - 1] = Folded(p, p.text)[j] }

\* the text contains the pattern and, with the whole-word option, an
\* occurrence with a word boundary on each side
LiteralMatches(p, text) ==
    \E i \in Occurrences(p, text) :
        p.whole => (BoundaryBefore(Folded(p, text), i)
                    /\ BoundaryBefore(Folded(p, text), i + Len(p.text)))

\* the texts the predicates of the tree are applied to: lines and names
TreeTexts ==
    UNION { Range(FSFiles[f].lines) : f \in DOMAIN FSFiles }
    \cup { BaseName(x) : x \in (DOMAIN FSFiles \cup DOMAIN FSDirs) \ {BASE} }

P_CAT_WORD == [text |-> <<"c", "a", "t">>, regex |-> FALSE, case |-> FALSE, whole |-> TRUE]

\* C26: the predicate of a literal pattern is true of a text exactly when
\* the text contains the pattern, both case-folded unless the case matters,
\* and with the whole-word option some occurrence has a word boundary on
\* each side: so it is for the patterns of every run, when its worker
\* starts, and every line and name of the tree; "cat" as a whole word matches "the cat sat" and not
\* "concatenate"; and a native Text run emits only lines the pattern
\* matches, and all of them of the files it read when it is not stopped.
C26_LiteralPredicate ==
    /\ Matches(P_CAT_WORD, <<"t", "h", "e", " ", "c", "a", "t", " ", "s", "a", "t">>)
    /\ ~Matches(P_CAT_WORD, <<"c", "o", "n", "c", "a", "t", "e", "n", "a", "t", "e">>)
    /\ \A w \in Workers :
           LET l == wk[w]
           IN  /\ l.pc = "entry"
                     => \A p \in {l.req.pat, l.req.cpat} :
                            ~p.regex => \A text \in TreeTexts :
                                           Matches(p, text) = LiteralMatches(p, text)
               /\ (NativeText(l) /\ ~l.req.pat.regex)
                     => /\ \A i \in DOMAIN l.hist.emitted :
                               LET rec == l.hist.emitted[i]
                               IN  LiteralMatches(l.req.pat, FSFiles[rec[1]].lines[rec[2]])
                        /\ (l.pc = "done" /\ ~l.saw_stop /\ ~l.req.first_match_per_file)
                               => \A f \in Range(l.hist.scanned) :
                                      (~FSFiles[f].binary /\ f \notin env.fs.denied)
                                          => \A k \in DOMAIN FSFiles[f].lines :
                                                 LiteralMatches(l.req.pat, FSFiles[f].lines[k])
                                                     => \E i \in DOMAIN l.hist.emitted :
                                                            /\ l.hist.emitted[i][1] = f
                                                            /\ l.hist.emitted[i][2] = k

\* a native Text run for "cat" as a whole word, case ignored, has ended
\* without a stop: of the five lines of cat.t it emitted all but line 2,
\* "concatenate"
C26_Witness ==
    /\ wk[1].req.pat = P_CAT_WORD /\ wk[1].req.mode = "Text"
    /\ wk[1].pc = "done" /\ ~wk[1].saw_stop
    /\ FSFiles[PathJoin(BASE, N_CAT)].lines[2] = L_CONCATENATE
    /\ { wk[1].hist.emitted[i][2] : i \in DOMAIN wk[1].hist.emitted } = {1, 3, 4, 5}

\* the same for "cat." as a whole word: only "cat.x", where a word
\* character follows the dot, is emitted
C26_WitnessDot ==
    /\ wk[1].req.pat = [P_CAT_WORD EXCEPT !.text = <<"c", "a", "t", ".">>]
    /\ wk[1].pc = "done" /\ ~wk[1].saw_stop
    /\ { wk[1].hist.emitted[i][2] : i \in DOMAIN wk[1].hist.emitted } = {4}

\* the pump has reported the run stopped: no tick is scheduled
PumpStopped == pump.pc = "idle" /\ pump.pending = 0

\* C27: once the stop event is set and the worker has returned, the pump
\* reaches its stopped state after finitely many ticks, whatever the
\* backlog and whether the run is paused or not; a tick that finds the
\* stop event unset always schedules the next one, and no tick is
\* scheduled once the pump has stopped.
C27_PumpStopsAfterRunEnds ==
    /\ (StopIsSet /\ wk[1].pc = "done") ~> PumpStopped
    /\ [][(pump.pc = "decide" /\ pump'.pc = "idle" /\ ~StopIsSet)
             => (pump'.pending = pump.pending + 1 /\ btn' = btn)]_vars
    /\ [][(PumpStopped /\ StopIsSet /\ run' = run) => PumpStopped']_vars

\* the worker has returned with the stop event set, the run is not paused
\* and more records are queued than two ticks take
C27_Witness ==
    /\ StopIsSet /\ wk[1].pc = "done"
    /\ pause_event
    /\ Len(result_q) > 2 * max_results_per_tick
    /\ ~PumpStopped

\* the same with the run paused: the backlog is still queued when the pump
\* has stopped
C27_WitnessPaused ==
    /\ StopIsSet /\ wk[1].pc = "done"
    /\ ~pause_event
    /\ Len(result_q) > 2 * max_results_per_tick
    /\ PumpStopped

\* C28: while a pause is in force and no stop was requested, a worker,
\* native or adapter, has put at most one record more than it had put when
\* the pause was requested.
C28_AtMostOneRecordAfterPause ==
    \A w \in Workers :
        (~pause_event /\ ~StopIsSet)
            => Len(wk[w].hist.emitted) <= wk[w].hist.paused_at + 1

\* the native Text worker has put one record since the pause was requested
\* and waits in the pause loop of the next line
C28_Witness ==
    /\ ~pause_event /\ ~StopIsSet
    /\ wk[1].pc = "t_line_pause_stop"
    /\ Len(wk[1].hist.emitted) = wk[1].hist.paused_at + 1

\* the same for the adapter, waiting before it handles the next output line
C28_WitnessAdapter ==
    /\ ~pause_event /\ ~StopIsSet
    /\ wk[1].pc = "rg_line_pause_stop"
    /\ Len(wk[1].hist.emitted) = wk[1].hist.paused_at + 1

\* C29: a pump tick that runs while the run is paused takes nothing from
\* the result queue or the log queue and shows nothing; as long as the pause
\* lasts, what is queued stays queued in its order, new items going to the
\* tail.
C29_PausedTickRemovesNothing ==
    /\ [][(Drains /\ ~pause_event)
             => UNCHANGED <<result_q, log_q, result_tree, log_text>>]_vars
    /\ [][(~pause_event /\ ~pause_event')
             => (IsPrefix(result_q, result_q') /\ IsPrefix(log_q, log_q'))]_vars

\* a tick has just run during a pause: the record the worker put after the
\* pause request and the line "Paused." are still queued, behind what was
\* queued before
C29_Witness ==
    /\ ~pause_event
    /\ pump.pc = "decide"
    /\ Len(result_q) >= 2
    /\ Len(wk[1].hist.emitted) = wk[1].hist.paused_at + 1
    /\ result_q[Len(result_q)] = wk[1].hist.emitted[Len(wk[1].hist.emitted)]
    /\ \E i \in DOMAIN log_q : log_q[i].text = "Paused."

\* C30: whatever state the previous run left, the step that starts a run
\* leaves the stop event unset, the pause event in the running state, both
\* counters at 0, both queues empty and both widgets cleared.
C30_RunStartsClean ==
    [][run' = run + 1
         => /\ ~stop_event' /\ pause_event'
            /\ files_scanned' = 0 /\ matches_found' = 0
            /\ result_q' = <<>> /\ log_q' = <<>>
            /\ result_tree' = <<>> /\ log_text' = <<>>]_vars

\* the second run has just started after the first was stopped while
\* paused: the first worker, which had counted a file, still sits in the
\* pause loop of a line
C30_Witness ==
    /\ run = 2 /\ wk[2].pc = "entry"
    /\ wk[1].pc = "t_line_pause_stop"
    /\ wk[1].hist.scanned # <<>>
    /\ ~stop_event /\ pause_event
    /\ result_q = <<>> /\ log_q = <<>>
    /\ files_scanned = 0 /\ matches_found = 0

\* C31: a click on Pause / Resume that finds the stop event set, whether
\* Stop or the end of the worker set it, changes neither the pause event nor
\* the result queue, the log queue or the two counters.
C31_ToggleAfterStopHasNoEffect ==
    [][(TogglePauseResume /\ StopIsSet)
         => UNCHANGED <<pause_event, stop_event, result_q, log_q, files_scanned,
                        matches_found>>]_vars

\* the worker has returned and set the stop event, the pump has not yet
\* reported it, and Pause was clicked since: the run is not paused and no
\* "Paused." line was logged
C31_Witness ==
    /\ StopIsSet /\ wk[1].pc = "done" /\ ~wk[1].saw_stop
    /\ btn.pause
    /\ ui = 1
    /\ pause_event
    /\ [text |-> "Paused.", arg |-> <<>>] \notin LogLines

\* the positions between state.matches_found += 1 and state.result_q.put
PutPending == {"t_line_put", "f_put", "d_put", "rg_put"}

\* the worker of run w is the only thread that was started
OnlyWorker(w) == wk[w].pc # "none" /\ \A v \in Workers \ {w} : wk[v].pc = "none"

\* C32: in a run with one worker and no reset of the counters by the main
\* thread, matches_found is the number of records the worker has put, plus
\* one exactly while the worker stands between the increment and the put;
\* when the worker has returned the two are equal.
C32_MatchesFoundCountsRecords ==
    \A w \in Workers :
        OnlyWorker(w)
            => /\ matches_found = Len(wk[w].hist.emitted)
                                     + (IF wk[w].pc \in PutPending THEN 1 ELSE 0)
               /\ wk[w].pc = "done" => matches_found = Len(wk[w].hist.emitted)

\* the native Text worker has put one record, has counted the second and
\* has not put it yet
C32_Witness ==
    /\ wk[1].pc = "t_line_put"
    /\ Len(wk[1].hist.emitted) = 1
    /\ matches_found = 2

\* the adapter has returned after two records
C32_WitnessAdapter ==
    /\ wk[1].pc = "done"
    /\ wk[1].req.use_ripgrep /\ rg_path # None
    /\ Len(wk[1].hist.emitted) = 2
    /\ matches_found = 2

\* the files directly inside folder that the hidden filter, the globs, the
\* ignore rules and the size cap of the worker l let through
EligibleFiles(l, folder) ==
    { k \in DOMAIN FSDirs[folder].files :
        LET name == FSDirs[folder].files[k]
            path == PathJoin(folder, name)
        IN  /\ ~(l.req.skip_hidden /\ is_hidden_path(path))
            /\ GlobsPass(name, l.req)
            /\ ~(l.rules # <<>>
                   /\ gitignore_ignored(RelPath(path, l.req.directory), FALSE, l.rules))
            /\ ~OverCap(FSFiles[path].size, l.req) }

\* C33: in Folder mode with the content filter off, the file count of every
\* record put is the number of files directly inside the folder that pass
\* the hidden, glob, ignore-rule and size filters, whatever pause and stop
\* requests arrive during the run.
C33_FolderRecordCountsFiles ==
    \A w \in Workers :
        (wk[w].req.mode = "Folder" /\ ~wk[w].req.content_filter_on)
            => \A i \in DOMAIN wk[w].hist.emitted :
                   LET rec == wk[w].hist.emitted[i]
                   IN  rec[4] = str(Cardinality(EligibleFiles(wk[w], rec[1])))

\* the same for the workers that have seen no stop
C33_CountWithoutStop ==
    \A w \in Workers :
        (wk[w].req.mode = "Folder" /\ ~wk[w].req.content_filter_on /\ ~wk[w].saw_stop)
            => \A i \in DOMAIN wk[w].hist.emitted :
                   LET rec == wk[w].hist.emitted[i]
                   IN  rec[4] = str(Cardinality(EligibleFiles(wk[w], rec[1])))

\* the positions of the adapter
RgPositions == RgReading \cup {"rg_popen", "rg_fail_set", "rg_after", "rg_communicate",
                               "rg_scanned", "rg_final"}

\* C34: in a run of the rg adapter, files_scanned is written only at the
\* end of the run, by the one assignment of the files_searched value of the
\* summary message, and only if a summary message was read; otherwise (the
\* run was cancelled before the summary) it keeps the value it had, which
\* is 0 when no other worker was started; the value is taken from a summary message and from nothing else; a match
\* message adds one to matches_found and leaves files_scanned alone.
C34_ScannedReplacedBySummary ==
    /\ [][\A w \in Workers :
             (wk[w].pc \in RgPositions /\ Steps(w))
                 => /\ IF wk[w].pc = "rg_scanned"
                       THEN files_scanned' = wk[w].files_searched[1] /\ wk'[w].pc = "rg_final"
                       ELSE files_scanned' = files_scanned
                    /\ (wk'[w].pc # "done" /\ wk'[w].files_searched # wk[w].files_searched)
                           => /\ wk[w].raw.type = "summary"
                              /\ wk'[w].files_searched = wk[w].raw.files_searched
                    /\ (wk[w].pc = "rg_count" /\ wk'[w].pc # "rg_count")
                           => matches_found' = matches_found + 1]_vars
    /\ [](\A w \in Workers :
             (wk[w].pc = "rg_final" /\ OnlyWorker(w))
                 => IF wk[w].files_searched # Missing
                    THEN files_scanned = Len(RgSearched(wk[w].req))
                    ELSE files_scanned = 0)

\* the adapter has read the summary of a run over the full tree and has
\* replaced the counter: two files searched, three matches
C34_Witness ==
    /\ wk[1].pc = "rg_final"
    /\ wk[1].files_searched = Some(2)
    /\ files_scanned = 2
    /\ matches_found = 3

\* the run was cancelled before the summary was read: a match was counted,
\* the counter of scanned items is still 0
C34_WitnessCancelled ==
    /\ wk[1].pc = "rg_final"
    /\ wk[1].saw_stop
    /\ wk[1].files_searched = Missing
    /\ files_scanned = 0
    /\ matches_found >= 1

\* the positions where a worker puts a log line
LogPending == {"t_invalid_log", "t_dir_log", "f_dir_log", "d_dir_log"}

\* C35: a worker that stands before a put of a record or of a log line can
\* take that step in every state, whatever is queued and whether the pump
\* is running, paused or stopped, and the step appends the item to the
\* queue.
C35_PutNeverBlocks ==
    /\ [](\A w \in Workers :
             wk[w].pc \in PutPending \cup LogPending => ENABLED Worker(w))
    /\ [][\A w \in Workers :
             /\ (wk[w].pc \in PutPending /\ wk'[w].pc # wk[w].pc)
                    => (Len(result_q') = Len(result_q) + 1 /\ IsPrefix(result_q, result_q'))
             /\ (wk[w].pc \in LogPending /\ wk'[w].pc # wk[w].pc)
                    => (Len(log_q') = Len(log_q) + 1 /\ IsPrefix(log_q, log_q'))]_vars

\* the pump has stopped after Pause and Stop, two records are queued for
\* good, and the worker stands before the put of a third
C35_Witness ==
    /\ StopIsSet /\ ~pause_event
    /\ PumpStopped
    /\ Len(result_q) = 2
    /\ wk[1].pc \in PutPending

\* C36: a pump tick that reschedules itself takes the delay of 1 ms exactly
\* when the result queue or the log queue is not empty at the end of the
\* tick, and the delay of 120 ms when both are empty.
C36_DelayFollowsBacklog ==
    [][(pump.pc = "decide" /\ pump'.pending = pump.pending + 1)
         => /\ (result_q # <<>> \/ log_q # <<>>) => pump'.delay = DELAY_BACKLOG
            /\ (result_q = <<>> /\ log_q = <<>>) => pump'.delay = DELAY_IDLE
            /\ DELAY_BACKLOG = 1 /\ DELAY_IDLE = 120]_vars

\* the first tick on 1601 queued records has shown 800 and has rescheduled
\* itself with the short delay
C36_Witness ==
    /\ pump.pc = "idle" /\ pump.pending = 1
    /\ pump.delay = DELAY_BACKLOG
    /\ Len(result_tree) = max_results_per_tick
    /\ Len(result_q) = max_results_per_tick + 1

\* a later tick has emptied both queues and has rescheduled itself with the
\* idle delay
C36_WitnessIdle ==
    /\ pump.pc = "idle" /\ pump.pending = 1
    /\ pump.delay = DELAY_IDLE
    /\ Len(result_tree) = 2 * max_results_per_tick + 1
    /\ result_q = <<>> /\ log_q = <<>>

\* what the claim says of one line of the ignore file: the line without the
\* blanks around it, whether it yields a rule, and the rule
LineText(raw) == Strip(raw)
YieldsRule(raw) ==
    LET t == LineText(raw) IN t # <<>> /\ Head(t) # "#" /\ t # <<"!">>
RuleOfLine(raw) ==
    LET t == LineText(raw)
        negated == Head(t) = "!"
        dir_only == t[Len(t)] = "/"
        body == IF negated THEN Strip(SubSeq(t, 2, Len(t))) ELSE t
        last == CHOOSE k \in 0..Len(body) :
                    /\ \A j \in (k + 1)..Len(body) : body[j] = "/"
                    /\ k > 0 => body[k] # "/"
    IN  << SubSeq(body, 1, last) \o (IF dir_only THEN <<"/", "*", "*">> ELSE <<>>),
           negated, dir_only >>

\* the rules of the lines raws, one per line that yields a rule
ExpectedRules(raws) ==
    LET kept == SelectSeq(raws, YieldsRule)
    IN  [k \in 1..Len(kept) |-> RuleOfLine(kept[k])]

\* C37: the rules a run works with are one rule per line of the ignore file
\* that is neither blank nor a comment nor a bare "!", in file order, each
\* negated exactly when its line starts with "!" and directory-only
\* exactly when its line ends with "/"; an ignore file that is missing or
\* cannot be read yields no rule.
C37_OneRulePerLine ==
    \A w \in Workers :
        (Live(w) /\ wk[w].req.respect_gitignore)
            => LET raws == env.fs.gitignore
                   unreadable == PathJoin(BASE, N_GITIGNORE) \in env.fs.denied
               IN  /\ (unreadable \/ raws = <<>>) => wk[w].rules = <<>>
                   /\ ~unreadable => wk[w].rules = ExpectedRules(raws)
                   /\ ~unreadable =>
                          Len(wk[w].rules) = Cardinality({k \in DOMAIN raws : YieldsRule(raws[k])})

\* a run on the ignore file "z/", " ! w/": two rules in that order, the
\* first directory-only, the second negated and directory-only
C37_Witness ==
    /\ env.fs.gitignore = << <<"z", "/", "\n">>, <<" ", "!", " ", "w", "/">> >>
    /\ env.fs.denied = {}
    /\ wk[1].pc = "t_final"
    /\ wk[1].rules = << << <<"z", "/", "*", "*">>, FALSE, TRUE >>,
                        << <<"w", "/", "*", "*">>, TRUE, TRUE >> >>

\* a run on an ignore file of a comment and a bare "!": no rule
C37_WitnessSkipped ==
    /\ env.fs.gitignore = << <<"#", "x", "\n">>, <<"!", " ", "\n">> >>
    /\ env.fs.denied = {}
    /\ wk[1].pc = "t_final"
    /\ wk[1].rules = <<>>

\* a run whose ignore file could not be read
C37_WitnessUnreadable ==
    /\ env.fs.gitignore = << <<"x", "\n">> >>
    /\ env.fs.denied = {PathJoin(BASE, N_GITIGNORE)}
    /\ wk[1].pc = "t_final"
    /\ wk[1].rules = <<>>

====
